---- MODULE Spec2Model ----
(***************************************************************************)
(* Model of the Adaptive Coaching Priority Engine of coach-ai             *)
(* (src/vision/compare.py): the priority scorer, the issue classifier,    *)
(* the adaptive coaching focus, the drill recommender, the progress       *)
(* tracker and the drill outcome tracker with its persistent store.       *)
(*                                                                         *)
(* Numbers.  The code computes in floats.  The model uses fixed point:    *)
(* every input quantity (deviation, phase stability, progress delta,      *)
(* scores out of 100, metric values) is an integer number of tenths, and  *)
(* every priority-score quantity is an integer number of 1/200 points     *)
(* (the finest grain that makes stability/100*15 exact for tenths).       *)
(*                                                                         *)
(* Strings that the code inspects by substring (metric names) are         *)
(* sequences of one-character strings; other strings are TLA+ strings.    *)
(***************************************************************************)
EXTENDS Integers, Sequences, FiniteSets, TLC

VARIABLES
    pc,                  \* position of the process the specification runs
    issue,               \* arguments of the scorer / classifier call
    priority_data,       \* result of compute_issue_priority_score
    classification_data, \* result of classify_coaching_issue
    now,                 \* the wall clock, in seconds
    outputs,             \* the outputs/ directory: session id -> session directory
    outcome_file,        \* outputs/drill_outcomes.json
    run,                 \* local variables of the run_pipeline call in progress
    produced             \* per session, what its run computed in memory (history)

issueVars == <<issue, priority_data, classification_data>>
pipelineVars == <<now, outputs, outcome_file, run, produced>>
vars == <<pc, issueVars, pipelineVars>>

\* a result variable before the call that sets it
NoResult == [absent |-> TRUE]

\* Python's None and an optional value; None and the empty dict are both
\* falsy, and a dict is a function on its keys
None == <<>>
Some(x) == <<x>>
IsNone(o) == o = <<>>
EmptyDict == <<>>
Truthy(d) == DOMAIN d # {}

\* dict.get(key) and dict.get(key, default)
Get(dict, key) == IF key \in DOMAIN dict THEN Some(dict[key]) ELSE None
GetOr(dict, key, default) == IF key \in DOMAIN dict THEN dict[key] ELSE default

\* the dict with key set to value
Put(dict, key, value) ==
    [k \in DOMAIN dict \cup {key} |-> IF k = key THEN value ELSE dict[k]]

\* the outcome of a call: the value it returned, or that it raised
Returned(value) == [raised |-> FALSE, value |-> value]
Raised == [raised |-> TRUE, value |-> <<>>]

\* a try block without its except clause
Uncaught(attempt, fallback) == attempt

\* try: attempt / except: return fallback
Caught(attempt, fallback) ==
    IF attempt.raised THEN Returned(fallback) ELSE attempt

(***************************************************************************)
(* Fixed point                                                             *)
(***************************************************************************)
\* a literal with one decimal place: Deci(3, 5) is 3.5, in tenths
Deci(whole, tenth) == whole * 10 + tenth

\* n priority points, in units of 1/200 point
Pts(n) == n * 200

\* a quantity in tenths as priority points
DeciToPts(d) == (d * Pts(1)) \div Deci(1, 0)

Abs(x) == IF x < 0 THEN -x ELSE x
Min(a, b) == IF a <= b THEN a ELSE b
Max(a, b) == IF a >= b THEN a ELSE b

(***************************************************************************)
(* Strings as character sequences: str.lower() and the `in` operator       *)
(***************************************************************************)
UpperToLower ==
    [A |-> "a", B |-> "b", C |-> "c", D |-> "d", E |-> "e", F |-> "f",
     G |-> "g", H |-> "h", I |-> "i", J |-> "j", K |-> "k", L |-> "l",
     M |-> "m", N |-> "n", O |-> "o", P |-> "p", Q |-> "q", R |-> "r",
     S |-> "s", T |-> "t", U |-> "u", V |-> "v", W |-> "w", X |-> "x",
     Y |-> "y", Z |-> "z"]

Lower(s) ==
    [i \in 1..Len(s) |->
        IF s[i] \in DOMAIN UpperToLower THEN UpperToLower[s[i]] ELSE s[i]]

\* Python: sub in s
Contains(s, sub) ==
    \E i \in 1..(Len(s) - Len(sub) + 1) : SubSeq(s, i, i + Len(sub) - 1) = sub

\* substrings the code looks for
str_angle == <<"a", "n", "g", "l", "e">>
str_rotation == <<"r", "o", "t", "a", "t", "i", "o", "n">>

\* metric names the cue generators emit (rank_cues_by_deviation,
\* get_phase_cues_with_priority), and one capitalised spelling
left_elbow_angle ==
    <<"l", "e", "f", "t", "_", "e", "l", "b", "o", "w", "_", "a", "n", "g", "l", "e">>
hip_rotation == <<"h", "i", "p", "_", "r", "o", "t", "a", "t", "i", "o", "n">>
spine_lean == <<"s", "p", "i", "n", "e", "_", "l", "e", "a", "n">>
stance_width_normalized ==
    <<"s", "t", "a", "n", "c", "e", "_", "w", "i", "d", "t", "h", "_",
      "n", "o", "r", "m", "a", "l", "i", "z", "e", "d">>
knee_angle_avg ==
    <<"k", "n", "e", "e", "_", "a", "n", "g", "l", "e", "_", "a", "v", "g">>
left_shoulder_angle ==
    <<"l", "e", "f", "t", "_", "s", "h", "o", "u", "l", "d", "e", "r", "_",
      "a", "n", "g", "l", "e">>
Hip_Rotation_Cap == <<"H", "i", "p", "_", "R", "o", "t", "a", "t", "i", "o", "n">>


\* phase names, and two spellings the scorer's phase.lower() must handle
preparation ==
    <<"p", "r", "e", "p", "a", "r", "a", "t", "i", "o", "n">>
load ==
    <<"l", "o", "a", "d">>
contact ==
    <<"c", "o", "n", "t", "a", "c", "t">>
follow_through ==
    <<"f", "o", "l", "l", "o", "w", "_", "t", "h", "r", "o", "u", "g", "h">>
impact ==
    <<"i", "m", "p", "a", "c", "t">>
Contact_Cap ==
    <<"C", "o", "n", "t", "a", "c", "t">>

(***************************************************************************)
(* compute_issue_priority_score                                            *)
(***************************************************************************)
\* the ladder with the rotation test left out
SeverityPointsAngleOnly(metric_name, deviation) ==
    LET abs_deviation == Abs(deviation) IN
    IF Contains(Lower(metric_name), str_angle)
    THEN IF abs_deviation >= Deci(80, 0) THEN Pts(40)
         ELSE IF abs_deviation >= Deci(50, 0) THEN Pts(35)
         ELSE IF abs_deviation >= Deci(30, 0) THEN Pts(30)
         ELSE IF abs_deviation >= Deci(20, 0) THEN Pts(20)
         ELSE IF abs_deviation >= Deci(10, 0) THEN Pts(10)
         ELSE Pts(5)
    ELSE IF abs_deviation >= Deci(4, 0) THEN Pts(40)
         ELSE IF abs_deviation >= Deci(3, 0) THEN Pts(30)
         ELSE IF abs_deviation >= Deci(2, 0) THEN Pts(20)
         ELSE IF abs_deviation >= Deci(1, 0) THEN Pts(10)
         ELSE Pts(5)

\* 1. severity, 0-40 points
SeverityPoints(metric_name, deviation) ==
    LET abs_deviation == Abs(deviation) IN
    IF Contains(Lower(metric_name), str_angle)
       \/ Contains(Lower(metric_name), str_rotation)
    THEN IF abs_deviation >= Deci(80, 0) THEN Pts(40)
         ELSE IF abs_deviation >= Deci(50, 0) THEN Pts(35)
         ELSE IF abs_deviation >= Deci(30, 0) THEN Pts(30)
         ELSE IF abs_deviation >= Deci(20, 0) THEN Pts(20)
         ELSE IF abs_deviation >= Deci(10, 0) THEN Pts(10)
         ELSE Pts(5)
    ELSE IF abs_deviation >= Deci(4, 0) THEN Pts(40)
         ELSE IF abs_deviation >= Deci(3, 0) THEN Pts(30)
         ELSE IF abs_deviation >= Deci(2, 0) THEN Pts(20)
         ELSE IF abs_deviation >= Deci(1, 0) THEN Pts(10)
         ELSE Pts(5)

\* 2. reliability weight: reliability_weights.get(level, 15.0)
ReliabilityPoints(reliability_level) ==
    CASE reliability_level = "High" -> Pts(25)
      [] reliability_level = "Medium" -> Pts(15)
      [] reliability_level = "Low" -> Pts(5)
      [] OTHER -> Pts(15)

\* phase importance looked up without lower-casing the phase
PhasePointsCaseSensitive(phase) ==
    CASE phase = contact -> Pts(20)
      [] phase = load -> Pts(15)
      [] phase = follow_through -> Pts(12)
      [] phase = preparation -> Pts(8)
      [] OTHER -> Pts(10)

\* 3. phase importance: phase_weights.get(phase.lower(), 10.0)
PhasePoints(phase) ==
    LET p == Lower(phase) IN
    CASE p = contact -> Pts(20)
      [] p = load -> Pts(15)
      [] p = follow_through -> Pts(12)
      [] p = preparation -> Pts(8)
      [] OTHER -> Pts(10)

\* the stability taken as a score out of 10
ConsistencyPointsOutOfTen(phase_stability_score) ==
    (phase_stability_score * Pts(15)) \div Deci(10, 0)

\* 4. consistency: (phase_stability_score / 100.0) * 15.0
ConsistencyPoints(phase_stability_score) ==
    (phase_stability_score * Pts(15)) \div Deci(100, 0)

\* the modifier without its min/max clamps
ProgressModifierUnclamped(progress_delta) ==
    IF progress_delta > Deci(5, 0) THEN DeciToPts(progress_delta)
    ELSE IF progress_delta < -Deci(5, 0) THEN DeciToPts(progress_delta)
    ELSE 0

\* 5. progress modifier, -10 to +10 points
ProgressModifier(progress_delta) ==
    IF progress_delta > Deci(5, 0) THEN Min(Pts(10), DeciToPts(progress_delta))
    ELSE IF progress_delta < -Deci(5, 0) THEN Max(-Pts(10), DeciToPts(progress_delta))
    ELSE 0

compute_issue_priority_score(metric_name, deviation, phase, reliability_level, phase_stability_score, progress_delta) ==
    LET severity == SeverityPoints(metric_name, deviation)
        reliability_points == ReliabilityPoints(reliability_level)
        phase_points == PhasePoints(phase)
        consistency_points == ConsistencyPoints(phase_stability_score)
        progress_mod == ProgressModifier(progress_delta)
    IN  [total_score |-> severity + reliability_points + phase_points
                          + consistency_points + progress_mod,
         severity |-> severity,
         reliability |-> reliability_points,
         phase_importance |-> phase_points,
         consistency |-> consistency_points,
         progress_modifier |-> progress_mod]

(***************************************************************************)
(* classify_coaching_issue                                                 *)
(***************************************************************************)
IsSevere(metric_name, current_deviation) ==
    IF Contains(Lower(metric_name), str_angle)
    THEN Abs(current_deviation) >= Deci(50, 0)
    ELSE Abs(current_deviation) >= Deci(3, 0)

IsModerate(metric_name, current_deviation) ==
    IF Contains(Lower(metric_name), str_angle)
    THEN Abs(current_deviation) >= Deci(20, 0)
    ELSE Abs(current_deviation) >= Deci(1, 5)

IsReliable(reliability_level) == reliability_level \in {"High", "Medium"}

\* the comparison with its sign slipped
IsImprovingSignSlip(progress_delta) == progress_delta < Deci(5, 0)

\* progress_delta is a float at every call site (the only caller,
\* generate_adaptive_coaching_focus, initialises it to 0.0), so the
\* "is not None" conjunct is always true
IsImproving(progress_delta) == progress_delta < -Deci(5, 0)

IsWorsening(progress_delta) == progress_delta > Deci(5, 0)

IsConsistent(phase_stability) == phase_stability >= Deci(70, 0)

\* the chain without its final else: the result is left unbound
ClassifyBranchNoDefault(is_severe, is_moderate, reliability_level, is_improving, is_consistent) ==
    LET is_reliable == IsReliable(reliability_level) IN
    IF is_severe /\ reliability_level = "High" /\ is_consistent
    THEN [branch |-> 1, classification |-> "CRITICAL"]
    ELSE IF is_severe /\ is_reliable
    THEN [branch |-> 2, classification |-> "PRIORITY"]
    ELSE IF is_moderate /\ is_reliable /\ ~is_improving
    THEN [branch |-> 3, classification |-> "PRIORITY"]
    ELSE IF is_improving /\ is_reliable
    THEN [branch |-> 4, classification |-> "MONITOR"]
    ELSE IF reliability_level = "Low" /\ ~is_severe
    THEN [branch |-> 5, classification |-> "SUPPRESS"]
    ELSE IF is_moderate /\ reliability_level = "Low"
    THEN [branch |-> 6, classification |-> "MONITOR"]
    ELSE [branch |-> 7, classification |-> "UNBOUND"]

\* the chain with the low-reliability test moved to the front
ClassifyBranchSuppressFirst(is_severe, is_moderate, reliability_level, is_improving, is_consistent) ==
    LET is_reliable == IsReliable(reliability_level) IN
    IF reliability_level = "Low"
    THEN [branch |-> 5, classification |-> "SUPPRESS"]
    ELSE IF is_severe /\ reliability_level = "High" /\ is_consistent
    THEN [branch |-> 1, classification |-> "CRITICAL"]
    ELSE IF is_severe /\ is_reliable
    THEN [branch |-> 2, classification |-> "PRIORITY"]
    ELSE IF is_moderate /\ is_reliable /\ ~is_improving
    THEN [branch |-> 3, classification |-> "PRIORITY"]
    ELSE IF is_improving /\ is_reliable
    THEN [branch |-> 4, classification |-> "MONITOR"]
    ELSE [branch |-> 7, classification |-> "MONITOR"]

\* the if/elif chain; branch is the 1-based position of the branch taken
ClassifyBranch(is_severe, is_moderate, reliability_level, is_improving, is_consistent) ==
    LET is_reliable == IsReliable(reliability_level) IN
    IF is_severe /\ reliability_level = "High" /\ is_consistent
    THEN [branch |-> 1, classification |-> "CRITICAL"]
    ELSE IF is_severe /\ is_reliable
    THEN [branch |-> 2, classification |-> "PRIORITY"]
    ELSE IF is_moderate /\ is_reliable /\ ~is_improving
    THEN [branch |-> 3, classification |-> "PRIORITY"]
    ELSE IF is_improving /\ is_reliable
    THEN [branch |-> 4, classification |-> "MONITOR"]
    ELSE IF reliability_level = "Low" /\ ~is_severe
    THEN [branch |-> 5, classification |-> "SUPPRESS"]
    ELSE IF is_moderate /\ reliability_level = "Low"
    THEN [branch |-> 6, classification |-> "MONITOR"]
    ELSE [branch |-> 7, classification |-> "MONITOR"]

classify_coaching_issue(metric_name, current_deviation, reliability_level, progress_delta, phase_stability) ==
    LET is_severe == IsSevere(metric_name, current_deviation)
        is_moderate == IsModerate(metric_name, current_deviation)
        is_improving == IsImproving(progress_delta)
        is_worsening == IsWorsening(progress_delta)
        is_consistent == IsConsistent(phase_stability)
        taken == ClassifyBranch(is_severe, is_moderate, reliability_level,
                                is_improving, is_consistent)
    IN  [classification |-> taken.classification,
         branch |-> taken.branch,
         is_severe |-> is_severe,
         is_moderate |-> is_moderate,
         is_reliable |-> IsReliable(reliability_level),
         is_improving |-> is_improving,
         is_worsening |-> is_worsening,
         is_consistent |-> is_consistent]

(***************************************************************************)
(* Progress tracking across sessions                                       *)
(***************************************************************************)
\* the four phases, in the order every loop of the code visits them
FourPhases == <<preparation, load, contact, follow_through>>

\* phase_labels of generate_report
label_Preparation ==
    <<"P", "r", "e", "p", "a", "r", "a", "t", "i", "o", "n">>
label_Load ==
    <<"L", "o", "a", "d">>
label_Contact ==
    <<"C", "o", "n", "t", "a", "c", "t">>
label_Follow_through ==
    <<"F", "o", "l", "l", "o", "w", "-", "t", "h", "r", "o", "u", "g", "h">>

PhaseLabel(phase_key) ==
    CASE phase_key = preparation -> label_Preparation
      [] phase_key = load -> label_Load
      [] phase_key = contact -> label_Contact
      [] phase_key = follow_through -> label_Follow_through

\* the regular expression class \w
WordChars ==
    DOMAIN UpperToLower \cup {UpperToLower[c] : c \in DOMAIN UpperToLower}
    \cup {"0", "1", "2", "3", "4", "5", "6", "7", "8", "9", "_"}

\* whether \*\*(\w+(?:\s+\w+)?)\*\* matches "**label**": one word, or two
\* words separated by white space
MatchesPhasePattern(label) ==
    /\ Len(label) >= 1
    /\ label[1] \in WordChars
    /\ label[Len(label)] \in WordChars
    /\ \A i \in 1..Len(label) : label[i] \in WordChars \cup {" "}
    /\ Cardinality({i \in 1..(Len(label) - 1) :
                       label[i] = " " /\ label[i + 1] # " "}) <= 1

\* str.replace for one-character strings
Replace(s, old, new) == [i \in 1..Len(s) |-> IF s[i] = old THEN new ELSE s[i]]

\* phase_name.lower().replace(' ', '_').replace('-', '_')
PhaseKey(label) == Replace(Replace(Lower(label), " ", "_"), "-", "_")

\* the lines "- **<label>**: <score>/100" of a report, in the order written:
\* the similarity section (phase_scores), then, when reliability data
\* exists, the stability section (user_phase_stability).  The ML similarity
\* section between them, which has the same form, is left out.
SimilarityLines(phase_scores) ==
    LET keys == SelectSeq(FourPhases, LAMBDA p : p \in DOMAIN phase_scores)
    IN  [i \in 1..Len(keys) |-> <<PhaseLabel(keys[i]), phase_scores[keys[i]]>>]

StabilityLines(user_reliability, user_phase_stability) ==
    IF Truthy(user_reliability) /\ Truthy(user_phase_stability)
    THEN LET keys == SelectSeq(FourPhases,
                         LAMBDA p : p \in DOMAIN user_phase_stability)
         IN  [i \in 1..Len(keys) |->
                <<PhaseLabel(keys[i]), user_phase_stability[keys[i]].overall_score>>]
    ELSE <<>>

\* the part of the report text that load_previous_metrics reads back
ReportText(overall_score, phase_weighted_score, phase_scores, user_reliability, user_phase_stability) ==
    [overall_score |-> overall_score,
     quality_score |-> phase_weighted_score,
     phase_lines |-> SimilarityLines(phase_scores)
                     \o StabilityLines(user_reliability, user_phase_stability)]

\* re.findall over the phase lines: a later line with the same key
\* overwrites an earlier one
RECURSIVE ParsePhaseScores(_)
ParsePhaseScores(lines) ==
    IF Len(lines) = 0 THEN EmptyDict
    ELSE LET before == ParsePhaseScores(SubSeq(lines, 1, Len(lines) - 1))
             line == lines[Len(lines)]
         IN  IF MatchesPhasePattern(line[1])
             THEN Put(before, PhaseKey(line[1]), line[2])
             ELSE before

\* the largest session id; ids are timestamps of one fixed width, so the
\* lexicographic order of the names is the numeric order of the seconds
MaxOf(ids) == CHOOSE m \in ids : \A i \in ids : i <= m

\* the smallest session id
MinOf(ids) == CHOOSE m \in ids : \A i \in ids : m <= i

FindPrevious(dirs, current_session_id) ==
    LET session_dirs == dirs \ {current_session_id}
    IN  IF session_dirs = {} THEN None ELSE Some(MaxOf(session_dirs))

find_previous_session(current_session_id) ==
    FindPrevious(DOMAIN outputs, current_session_id)

\* a report.md that is not valid UTF-8, and one with none of the score lines
UnreadableReport == [unreadable |-> TRUE]
BlankReport == [phase_lines |-> <<>>]

\* f.read() of the report: raises UnicodeDecodeError on an unreadable file
ReadReport(report_file) ==
    IF "unreadable" \in DOMAIN report_file THEN Raised ELSE Returned(report_file)

\* the metrics the three regular-expression searches find in the text
ParsedMetrics(content) ==
    LET phase_scores == ParsePhaseScores(content.phase_lines)
        overall ==
            IF "overall_score" \in DOMAIN content
            THEN Put(EmptyDict, "overall_score", content.overall_score)
            ELSE EmptyDict
        weighted ==
            IF "quality_score" \in DOMAIN content
            THEN Put(overall, "phase_weighted_score", content.quality_score)
            ELSE overall
    IN  IF Truthy(phase_scores)
        THEN Put(weighted, "phase_scores", phase_scores)
        ELSE weighted

\* the call of load_previous_metrics with its try/except: what it returns,
\* or that it raised.  None and {} are both the empty dict here.
TryLoadPreviousMetrics(session_id) ==
    IF IsNone(outputs[session_id].report) THEN Returned(EmptyDict)
    ELSE Caught(LET content == ReadReport(outputs[session_id].report[1])
                IN  IF content.raised THEN Raised
                    ELSE Returned(ParsedMetrics(content.value)),
                EmptyDict)

load_previous_metrics(session_id) == TryLoadPreviousMetrics(session_id).value

classify_progress(delta) ==
    IF delta >= Deci(3, 0) THEN "Improved"
    ELSE IF delta <= -Deci(3, 0) THEN "Regressed"
    ELSE "Stable"

ScoreDelta(current, previous) ==
    [current |-> current,
     previous |-> previous,
     delta |-> current - previous,
     status |-> classify_progress(current - previous)]

compute_progress_deltas(current_metrics, previous_metrics) ==
    LET overall ==
            IF "overall_score" \in DOMAIN current_metrics
               /\ "overall_score" \in DOMAIN previous_metrics
            THEN Put(EmptyDict, "overall_score",
                     ScoreDelta(current_metrics["overall_score"],
                                previous_metrics["overall_score"]))
            ELSE EmptyDict
        weighted ==
            IF "phase_weighted_score" \in DOMAIN current_metrics
               /\ "phase_weighted_score" \in DOMAIN previous_metrics
            THEN Put(overall, "phase_weighted_score",
                     ScoreDelta(current_metrics["phase_weighted_score"],
                                previous_metrics["phase_weighted_score"]))
            ELSE overall
        both == "phase_scores" \in DOMAIN current_metrics
                /\ "phase_scores" \in DOMAIN previous_metrics
        shared == IF both
                  THEN DOMAIN current_metrics["phase_scores"]
                       \cap DOMAIN previous_metrics["phase_scores"]
                  ELSE {}
        phase_deltas ==
            [phase_key \in shared |->
                ScoreDelta(current_metrics["phase_scores"][phase_key],
                           previous_metrics["phase_scores"][phase_key])]
    IN  IF shared # {} THEN Put(weighted, "phase_deltas", phase_deltas)
        ELSE weighted

\* round(n / d, 0) for n >= 0, d > 0: Python rounds halves to even
RoundHalfEven(n, d) ==
    LET q == n \div d
        r == n % d
    IN  IF 2 * r < d THEN q
        ELSE IF 2 * r > d THEN q + 1
        ELSE IF q % 2 = 0 THEN q ELSE q + 1

\* default_weights of get_phase_weights, in hundredths
PhaseWeight(phase_key) ==
    CASE phase_key = preparation -> 15
      [] phase_key = load -> 25
      [] phase_key = contact -> 35
      [] phase_key = follow_through -> 25

RECURSIVE SumOver(_, _, _)
SumOver(keys, dict, weighted) ==
    IF keys = {} THEN 0
    ELSE LET k == CHOOSE x \in keys : TRUE
         IN  (IF weighted THEN dict[k] * PhaseWeight(k) ELSE PhaseWeight(k))
             + SumOver(keys \ {k}, dict, weighted)

compute_phase_weighted_score(phase_scores) ==
    LET keys == {FourPhases[i] : i \in 1..Len(FourPhases)} \cap DOMAIN phase_scores
    IN  IF keys # {}
        THEN RoundHalfEven(SumOver(keys, phase_scores, TRUE),
                           SumOver(keys, phase_scores, FALSE))
        ELSE Deci(50, 0)

(***************************************************************************)
(* generate_adaptive_coaching_focus                                        *)
(***************************************************************************)
\* the progress delta of the cue's phase, 0.0 when there is none
LookupProgressDelta(progress_deltas, phase) ==
    IF /\ Truthy(progress_deltas)
       /\ "phase_scores" \in DOMAIN progress_deltas
       /\ phase \in DOMAIN progress_deltas["phase_scores"]
    THEN progress_deltas["phase_scores"][phase].delta
    ELSE Deci(0, 0)

\* one pass of the loop over ranked_cues.  cue_data[0] .. cue_data[4] of the
\* code are cue_data[1] .. cue_data[5] here.
AdaptiveCue(cue_data, user_reliability, user_phase_stability, progress_deltas) ==
    LET cue_text == cue_data[1]
        metric_name == cue_data[3]
        deviation == cue_data[4]
        phase == cue_data[5]
        reliability_level ==
            IF Truthy(user_reliability) /\ metric_name \in DOMAIN user_reliability
            THEN user_reliability[metric_name].level
            ELSE "Medium"
        phase_stability ==
            IF Truthy(user_phase_stability) /\ phase \in DOMAIN user_phase_stability
            THEN user_phase_stability[phase].overall_score
            ELSE Deci(75, 0)
        progress_delta == LookupProgressDelta(progress_deltas, phase)
        scored == compute_issue_priority_score(metric_name, deviation, phase,
                      reliability_level, phase_stability, progress_delta)
        classified == classify_coaching_issue(metric_name, deviation,
                          reliability_level, progress_delta, phase_stability)
    IN  [cue_text |-> cue_text,
         metric |-> metric_name,
         phase |-> phase,
         deviation |-> deviation,
         priority_score |-> scored.total_score,
         priority_components |-> scored,
         classification |-> classified.classification,
         branch |-> classified.branch,
         reliability |-> reliability_level,
         phase_stability |-> phase_stability,
         progress_delta |-> progress_delta]

\* list.sort(key=priority_score, reverse=True): stable, highest first
RECURSIVE InsertByPriority(_, _)
InsertByPriority(sorted, cue) ==
    IF Len(sorted) = 0 THEN <<cue>>
    ELSE IF Head(sorted).priority_score >= cue.priority_score
         THEN <<Head(sorted)>> \o InsertByPriority(Tail(sorted), cue)
         ELSE <<cue>> \o sorted

RECURSIVE SortByPriority(_)
SortByPriority(cues) ==
    IF Len(cues) = 0 THEN <<>>
    ELSE InsertByPriority(SortByPriority(SubSeq(cues, 1, Len(cues) - 1)),
                          cues[Len(cues)])

WithClassification(cues, classification) ==
    SelectSeq(cues, LAMBDA c : c.classification = classification)

\* seq[:n]
Take(seq, n) == SubSeq(seq, 1, Min(n, Len(seq)))

generate_adaptive_coaching_focus(ranked_cues, user_reliability, user_phase_stability, progress_deltas) ==
    LET adaptive_cues ==
            SortByPriority([i \in 1..Len(ranked_cues) |->
                AdaptiveCue(ranked_cues[i], user_reliability,
                            user_phase_stability, progress_deltas)])
    IN  [all_adaptive_cues |-> adaptive_cues,
         critical |-> WithClassification(adaptive_cues, "CRITICAL"),
         priority |-> WithClassification(adaptive_cues, "PRIORITY"),
         monitor |-> WithClassification(adaptive_cues, "MONITOR"),
         suppressed |-> WithClassification(adaptive_cues, "SUPPRESS"),
         top_3 |-> Take(adaptive_cues, 3)]

\* the focus before generate_report has built one
NoFocus ==
    [all_adaptive_cues |-> <<>>, critical |-> <<>>, priority |-> <<>>,
     monitor |-> <<>>, suppressed |-> <<>>, top_3 |-> <<>>]

(***************************************************************************)
(* Drill recommendations                                                   *)
(***************************************************************************)
str_hip ==
    <<"h", "i", "p">>
str_elbow ==
    <<"e", "l", "b", "o", "w">>
str_knee ==
    <<"k", "n", "e", "e">>
str_stance ==
    <<"s", "t", "a", "n", "c", "e">>
str_width ==
    <<"w", "i", "d", "t", "h">>
str_spine ==
    <<"s", "p", "i", "n", "e">>
str_lean ==
    <<"l", "e", "a", "n">>
str_shoulder ==
    <<"s", "h", "o", "u", "l", "d", "e", "r">>

\* the issue_metric and issue_phase of the fallback drill
str_general ==
    <<"g", "e", "n", "e", "r", "a", "l">>
str_all ==
    <<"a", "l", "l">>

\* get_drill_knowledge_base: per category, the names of its drills in order
DrillKB ==
    [hip_rotation |-> <<"Medicine Ball Rotational Throws",
                        "Hip Rotation Shadow Swings">>,
     elbow_angles |-> <<"Wall Contact Drill", "Elbow-to-Body Connection">>,
     knee_stability |-> <<"Split-Step to Stance Drill">>,
     stance_width |-> <<"Ladder Footwork Drill", "Cone Placement Training">>,
     spine_lean |-> <<"Mirror Posture Check">>,
     shoulder_stability |-> <<"Resistance Band Shoulder Rotations">>,
     general_technique |-> <<"Slow-Motion Shadow Strokes",
                             "Video Review Sessions">>]

\* the same tests with 'stance' or 'width' looked for before 'elbow'
map_metric_to_drill_categoryStanceFirst(metric_name) ==
    LET metric_lower == Lower(metric_name) IN
    IF Contains(metric_lower, str_hip) /\ Contains(metric_lower, str_rotation)
    THEN "hip_rotation"
    ELSE IF Contains(metric_lower, str_stance) \/ Contains(metric_lower, str_width)
    THEN "stance_width"
    ELSE IF Contains(metric_lower, str_elbow) THEN "elbow_angles"
    ELSE IF Contains(metric_lower, str_knee) THEN "knee_stability"
    ELSE IF Contains(metric_lower, str_spine) \/ Contains(metric_lower, str_lean)
    THEN "spine_lean"
    ELSE IF Contains(metric_lower, str_shoulder) THEN "shoulder_stability"
    ELSE "general_technique"

map_metric_to_drill_category(metric_name) ==
    LET metric_lower == Lower(metric_name) IN
    IF Contains(metric_lower, str_hip) /\ Contains(metric_lower, str_rotation)
    THEN "hip_rotation"
    ELSE IF Contains(metric_lower, str_elbow) THEN "elbow_angles"
    ELSE IF Contains(metric_lower, str_knee) THEN "knee_stability"
    ELSE IF Contains(metric_lower, str_stance) \/ Contains(metric_lower, str_width)
    THEN "stance_width"
    ELSE IF Contains(metric_lower, str_spine) \/ Contains(metric_lower, str_lean)
    THEN "spine_lean"
    ELSE IF Contains(metric_lower, str_shoulder) THEN "shoulder_stability"
    ELSE "general_technique"

\* whether the category has drills: category in drill_kb and its list is
\* not empty
HasDrills(category) == category \in DOMAIN DrillKB /\ Len(DrillKB[category]) > 0

Drill(issue_metric, issue_phase, drill_name, intensity_level, priority_score, urgency) ==
    [issue_metric |-> issue_metric,
     issue_phase |-> issue_phase,
     drill_name |-> drill_name,
     intensity_level |-> intensity_level,
     priority_score |-> priority_score,
     urgency |-> urgency]

\* critical drills for the top three critical issues only
CriticalDrillsTopThree(critical) ==
    LET top == SubSeq(critical, 1, Min(3, Len(critical)))
        issues == SelectSeq(top,
                      LAMBDA c : HasDrills(map_metric_to_drill_category(c.metric)))
    IN  [i \in 1..Len(issues) |->
            Drill(issues[i].metric, issues[i].phase,
                  DrillKB[map_metric_to_drill_category(issues[i].metric)][1],
                  "intensive", issues[i].priority_score, "HIGH")]

\* critical issues: the first drill of the category, intensive
CriticalDrills(critical) ==
    LET issues == SelectSeq(critical,
                      LAMBDA c : HasDrills(map_metric_to_drill_category(c.metric)))
    IN  [i \in 1..Len(issues) |->
            Drill(issues[i].metric, issues[i].phase,
                  DrillKB[map_metric_to_drill_category(issues[i].metric)][1],
                  "intensive", issues[i].priority_score, "HIGH")]

\* always the first drill of the category
FirstDrillOnly(available_drills) == available_drills[1]

\* available_drills[0] if there is one drill, else available_drills[1]
SecondOrOnlyDrill(available_drills) ==
    IF Len(available_drills) = 1 THEN available_drills[1]
    ELSE available_drills[Min(1, Len(available_drills) - 1) + 1]

\* the top three priority issues: moderate
PriorityDrills(priority) ==
    LET issues == SelectSeq(Take(priority, 3),
                      LAMBDA c : HasDrills(map_metric_to_drill_category(c.metric)))
    IN  [i \in 1..Len(issues) |->
            Drill(issues[i].metric, issues[i].phase,
                  SecondOrOnlyDrill(DrillKB[map_metric_to_drill_category(issues[i].metric)]),
                  "moderate", issues[i].priority_score, "MODERATE")]

\* maintenance drills for every improving monitored issue
MaintenanceDrillsUncapped(monitor) ==
    LET issues == SelectSeq(monitor,
                      LAMBDA c : /\ c.progress_delta < -Deci(5, 0)
                                 /\ HasDrills(map_metric_to_drill_category(c.metric)))
    IN  [i \in 1..Len(issues) |->
            Drill(issues[i].metric, issues[i].phase,
                  DrillKB[map_metric_to_drill_category(issues[i].metric)][1],
                  "light", issues[i].priority_score, "MAINTENANCE")]

\* the top two monitored issues, when improving: light
MaintenanceDrills(monitor) ==
    LET issues == SelectSeq(Take(monitor, 2),
                      LAMBDA c : /\ c.progress_delta < -Deci(5, 0)
                                 /\ HasDrills(map_metric_to_drill_category(c.metric)))
    IN  [i \in 1..Len(issues) |->
            Drill(issues[i].metric, issues[i].phase,
                  DrillKB[map_metric_to_drill_category(issues[i].metric)][1],
                  "light", issues[i].priority_score, "MAINTENANCE")]

\* recommendations that also hand a light drill to every suppressed issue
generate_adaptive_drill_recommendationsForAll(adaptive_focus) ==
    LET critical_drills == CriticalDrills(adaptive_focus.critical)
        priority_drills == PriorityDrills(adaptive_focus.priority)
        general == Drill(str_general, str_all, DrillKB["general_technique"][1],
                         "moderate", Pts(50), "MODERATE")
        suppressed == adaptive_focus.suppressed
    IN  [critical_drills |-> critical_drills,
         priority_drills |->
            IF Len(critical_drills) = 0 /\ Len(priority_drills) = 0
            THEN <<general>> ELSE priority_drills,
         maintenance_drills |->
            MaintenanceDrills(adaptive_focus.monitor)
            \o [i \in 1..Len(suppressed) |->
                   Drill(suppressed[i].metric, suppressed[i].phase,
                         DrillKB[map_metric_to_drill_category(suppressed[i].metric)][1],
                         "light", suppressed[i].priority_score, "MAINTENANCE")],
         suppressed_count |-> Len(suppressed)]

\* recommendations without the fallback drill
generate_adaptive_drill_recommendationsNoFallback(adaptive_focus) ==
    [critical_drills |-> CriticalDrills(adaptive_focus.critical),
     priority_drills |-> PriorityDrills(adaptive_focus.priority),
     maintenance_drills |-> MaintenanceDrills(adaptive_focus.monitor),
     suppressed_count |-> Len(adaptive_focus.suppressed)]

generate_adaptive_drill_recommendations(adaptive_focus) ==
    LET critical_drills == CriticalDrills(adaptive_focus.critical)
        priority_drills == PriorityDrills(adaptive_focus.priority)
        general == Drill(str_general, str_all, DrillKB["general_technique"][1],
                         "moderate", Pts(50), "MODERATE")
    IN  [critical_drills |-> critical_drills,
         priority_drills |->
            IF Len(critical_drills) = 0 /\ Len(priority_drills) = 0
            THEN <<general>> ELSE priority_drills,
         maintenance_drills |-> MaintenanceDrills(adaptive_focus.monitor),
         suppressed_count |-> Len(adaptive_focus.suppressed)]

(***************************************************************************)
(* Drill outcome tracking                                                  *)
(***************************************************************************)
\* an outcome recorded as soon as the current value exists, the missing
\* previous value taken as 0
DrillOutcomeCurrentOnly(drill, previous_session_id, previous_session_metrics, current_session_metrics, current_session_id, reliability_data) ==
    LET target_metric == drill.issue_metric
        target_phase == drill.issue_phase
        prev_value ==
            IF Truthy(previous_session_metrics)
               /\ target_phase \in DOMAIN previous_session_metrics
            THEN Get(previous_session_metrics[target_phase], target_metric)
            ELSE None
        curr_value ==
            IF Truthy(current_session_metrics)
               /\ target_phase \in DOMAIN current_session_metrics
            THEN Get(current_session_metrics[target_phase], target_metric)
            ELSE None
        pre == IF IsNone(prev_value) THEN 0 ELSE prev_value[1]
    IN  IF target_metric = str_general \/ target_phase = str_all THEN <<>>
        ELSE IF IsNone(curr_value) THEN <<>>
        ELSE <<[previous_session_id |-> previous_session_id,
                current_session_id |-> current_session_id,
                metric_name |-> target_metric,
                phase |-> target_phase,
                drill_name |-> drill.drill_name,
                intensity |-> drill.intensity_level,
                classification |-> drill.urgency,
                pre_value |-> pre,
                post_value |-> curr_value[1],
                delta |-> curr_value[1] - pre,
                reliability |-> "Unknown",
                timestamp |-> now]>>

\* the outcome record of one drill, or nothing
DrillOutcome(drill, previous_session_id, previous_session_metrics, current_session_metrics, current_session_id, reliability_data) ==
    LET target_metric == drill.issue_metric
        target_phase == drill.issue_phase
        prev_value ==
            IF Truthy(previous_session_metrics)
               /\ target_phase \in DOMAIN previous_session_metrics
            THEN Get(previous_session_metrics[target_phase], target_metric)
            ELSE None
        curr_value ==
            IF Truthy(current_session_metrics)
               /\ target_phase \in DOMAIN current_session_metrics
            THEN Get(current_session_metrics[target_phase], target_metric)
            ELSE None
        metric_reliability ==
            IF Truthy(reliability_data) /\ target_metric \in DOMAIN reliability_data
            THEN reliability_data[target_metric].level
            ELSE "Unknown"
    IN  IF target_metric = str_general \/ target_phase = str_all THEN <<>>
        ELSE IF IsNone(prev_value) \/ IsNone(curr_value) THEN <<>>
        ELSE <<[previous_session_id |-> previous_session_id,
                current_session_id |-> current_session_id,
                metric_name |-> target_metric,
                phase |-> target_phase,
                drill_name |-> drill.drill_name,
                intensity |-> drill.intensity_level,
                classification |-> drill.urgency,
                pre_value |-> prev_value[1],
                post_value |-> curr_value[1],
                delta |-> curr_value[1] - prev_value[1],
                reliability |-> metric_reliability,
                timestamp |-> now]>>

RECURSIVE OutcomesOf(_, _, _, _, _, _)
OutcomesOf(all_drills, previous_session_id, previous_session_metrics, current_session_metrics, current_session_id, reliability_data) ==
    IF Len(all_drills) = 0 THEN <<>>
    ELSE DrillOutcome(Head(all_drills), previous_session_id,
                      previous_session_metrics, current_session_metrics,
                      current_session_id, reliability_data)
         \o OutcomesOf(Tail(all_drills), previous_session_id,
                       previous_session_metrics, current_session_metrics,
                       current_session_id, reliability_data)

\* the drills of all urgency levels, in the order the code collects them
AllDrills(drill_recommendations) ==
    GetOr(drill_recommendations, "critical_drills", <<>>)
    \o GetOr(drill_recommendations, "priority_drills", <<>>)
    \o GetOr(drill_recommendations, "maintenance_drills", <<>>)

track_drill_outcomes(previous_session_id, previous_session_metrics, current_session_metrics, drill_recommendations, current_session_id, reliability_data) ==
    IF ~Truthy(drill_recommendations) THEN <<>>
    ELSE OutcomesOf(AllDrills(drill_recommendations), previous_session_id,
                    previous_session_metrics, current_session_metrics,
                    current_session_id, reliability_data)

\* outputs/drill_outcomes.json: absent, unparsable, or a JSON array
NoFile == [exists |-> FALSE, parses |-> FALSE, records |-> <<>>]
JsonFile(records) == [exists |-> TRUE, parses |-> TRUE, records |-> records]
CorruptFile == [exists |-> TRUE, parses |-> FALSE, records |-> <<>>]

\* a load step that always starts from an empty history
LoadExistingFresh(file) == <<>>

\* the load step: the records of the file, [] when it is absent or corrupt
LoadExisting(file) ==
    IF file.exists /\ file.parses THEN file.records ELSE <<>>

\* the ways the write-back can end: "ok"; "open_fails", open(..., 'w') raises
\* and the file is untouched; "dump_fails", json.dump raises after the file
\* was truncated
WriteEnds == {"ok", "open_fails", "dump_fails"}

\* save_drill_outcomes: the file it leaves and the value it returns
save_drill_outcomes(file, outcomes, write_end) ==
    IF Len(outcomes) = 0
    THEN [file |-> file, returns |-> TRUE, raised |-> FALSE]
    ELSE LET existing_outcomes == LoadExisting(file) \o outcomes
             call == Caught(IF write_end = "ok" THEN Returned(TRUE) ELSE Raised,
                            FALSE)
         IN  [file |-> CASE write_end = "ok" -> JsonFile(existing_outcomes)
                         [] write_end = "open_fails" -> file
                         [] write_end = "dump_fails" -> CorruptFile,
              returns |-> call.value,
              raised |-> call.raised]

(***************************************************************************)
(* Drill confidence scores                                                 *)
(***************************************************************************)
\* json.load(f): raises when the text is not JSON
json_load(file) == IF file.parses THEN Returned(file.records) ELSE Raised

\* scores are fixed point: deltas in tenths, avg_delta and std_delta in
\* thousandths, the four components in ten-thousandths and the confidence
\* score, a weighted sum with weights in hundredths, in millionths
RECURSIVE SumSeq(_)
SumSeq(numbers) ==
    IF Len(numbers) = 0 THEN 0 ELSE Head(numbers) + SumSeq(Tail(numbers))

\* a / b to the nearest integer, b > 0
RoundDiv(a, b) == (2 * a + b) \div (2 * b)

\* the integer part of the square root, by bisection
RECURSIVE SqrtBetween(_, _, _)
SqrtBetween(lo, hi, x) ==
    IF lo = hi THEN lo
    ELSE LET mid == (lo + hi + 1) \div 2
         IN  IF mid * mid <= x THEN SqrtBetween(mid, hi, x)
             ELSE SqrtBetween(lo, mid - 1, x)

ISqrt(x) == SqrtBetween(0, Min(x, 46340), x)

\* the drill names in the order in which they first appear
RECURSIVE FirstAppearances(_)
FirstAppearances(outcomes) ==
    IF Len(outcomes) = 0 THEN <<>>
    ELSE LET before == FirstAppearances(SubSeq(outcomes, 1, Len(outcomes) - 1))
             drill_name == outcomes[Len(outcomes)].drill_name
         IN  IF \E i \in 1..Len(before) : before[i] = drill_name THEN before
             ELSE Append(before, drill_name)

\* drill_groups: per drill name, the deltas and the reliabilities of the
\* outcomes recorded for it, in the order of the history
DrillGroups(outcomes) ==
    [drill_name \in {outcomes[i].drill_name : i \in 1..Len(outcomes)} |->
        LET group == SelectSeq(outcomes, LAMBDA o : o.drill_name = drill_name)
        IN  [deltas |-> [i \in 1..Len(group) |-> group[i].delta],
             reliabilities |-> [i \in 1..Len(group) |-> group[i].reliability]]]

ConfidenceLevel(confidence_score) ==
    IF confidence_score >= 750000 THEN "High"
    ELSE IF confidence_score >= 500000 THEN "Medium"
    ELSE "Low"

\* the improvement component without its clamp to [0, 1]
ImprovementScoreUnclamped(total_delta, usage_count) ==
    5000 - RoundDiv(25 * total_delta, usage_count)

\* max(0.0, min(1.0, 0.5 - avg_delta / 40.0))
ImprovementScore(total_delta, usage_count) ==
    Max(0, Min(10000, 5000 - RoundDiv(25 * total_delta, usage_count)))

\* the body of the scoring loop for one drill
DrillConfidence(data) ==
    LET deltas == data.deltas
        usage_count == Len(deltas)
        total_delta == SumSeq(deltas)
        \* n * sum(d^2) - sum(d)^2 = (n * std)^2, in tenths squared
        spread == usage_count * SumSeq([i \in 1..Len(deltas) |-> deltas[i] * deltas[i]])
                  - total_delta * total_delta
        root == IF usage_count > 1 THEN ISqrt(spread * 100) ELSE 0
        avg_delta == RoundDiv(total_delta * 100, usage_count)
        std_delta == RoundDiv(root * 10, usage_count)
        high_reliability_count ==
            Len(SelectSeq(data.reliabilities, LAMBDA r : r = "High"))
        high_reliability_ratio == RoundDiv(10000 * high_reliability_count, usage_count)
        consistency ==
            IF Abs(total_delta) > usage_count
            THEN LET cv == RoundDiv(root * 1000, Abs(total_delta))
                 IN  Max(0, 10000 - Min(cv, 10000))
            ELSE Max(0, 10000 - Min(RoundDiv(root * 10, usage_count), 10000))
        improvement_score == ImprovementScore(total_delta, usage_count)
        sample_score == Min(10000, 2000 * usage_count)
        confidence_score ==
            40 * improvement_score + 25 * high_reliability_ratio
            + 25 * consistency + 10 * sample_score
    IN  [usage_count |-> usage_count,
         avg_delta |-> avg_delta,
         std_delta |-> std_delta,
         high_reliability_ratio |-> high_reliability_ratio,
         consistency |-> consistency,
         confidence_score |-> confidence_score,
         confidence_level |-> ConfidenceLevel(confidence_score)]

\* confidence_scores: drill name -> its confidence data
ConfidenceScores(outcomes) ==
    LET drill_groups == DrillGroups(outcomes)
    IN  [drill_name \in DOMAIN drill_groups |-> DrillConfidence(drill_groups[drill_name])]

\* the call of compute_drill_confidence_scores with its try/except
TryComputeDrillConfidenceScores(file) ==
    IF ~file.exists THEN Returned(EmptyDict)
    ELSE Caught(LET outcomes == json_load(file)
                IN  IF outcomes.raised THEN Raised
                    ELSE IF Len(outcomes.value) = 0 THEN Returned(EmptyDict)
                    ELSE Returned(ConfidenceScores(outcomes.value)),
                EmptyDict)

compute_drill_confidence_scores(file) ==
    TryComputeDrillConfidenceScores(file).value

\* confidence_scores.items(): a dict keeps its keys in insertion order,
\* which is the order in which the drill names first appear in the history
ConfidenceItems(file) ==
    LET confidence_scores == compute_drill_confidence_scores(file)
        order == IF Truthy(confidence_scores) THEN FirstAppearances(file.records)
                 ELSE <<>>
    IN  [i \in 1..Len(order) |-> <<order[i], confidence_scores[order[i]]>>]

\* sorted(items, key=confidence_score, reverse=True): the sort is stable,
\* and with reverse=True items with equal keys keep their original order
RECURSIVE SortByConfidence(_)
SortByConfidence(items) ==
    IF Len(items) = 0 THEN <<>>
    ELSE LET sorted == SortByConfidence(SubSeq(items, 1, Len(items) - 1))
             item == items[Len(items)]
             ahead == SelectSeq(sorted,
                          LAMBDA x : x[2].confidence_score >= item[2].confidence_score)
             behind == SelectSeq(sorted,
                          LAMBDA x : x[2].confidence_score < item[2].confidence_score)
         IN  ahead \o <<item>> \o behind

\* a descending sort that puts, of two items with equal scores, the later
\* one first
RECURSIVE SortByConfidenceTiesReversed(_)
SortByConfidenceTiesReversed(items) ==
    IF Len(items) = 0 THEN <<>>
    ELSE LET sorted == SortByConfidenceTiesReversed(SubSeq(items, 1, Len(items) - 1))
             item == items[Len(items)]
             ahead == SelectSeq(sorted,
                          LAMBDA x : x[2].confidence_score > item[2].confidence_score)
             behind == SelectSeq(sorted,
                          LAMBDA x : x[2].confidence_score <= item[2].confidence_score)
         IN  ahead \o <<item>> \o behind

\* the top drills with the ties of the ranking reversed
get_top_effective_drillsTiesReversed(n, file) ==
    LET items == ConfidenceItems(file)
    IN  IF Len(items) = 0 THEN <<>>
        ELSE LET sorted_drills == SortByConfidenceTiesReversed(items)
             IN  SubSeq(sorted_drills, 1, Min(n, Len(sorted_drills)))

get_top_effective_drills(n, file) ==
    LET items == ConfidenceItems(file)
    IN  IF Len(items) = 0 THEN <<>>
        ELSE LET sorted_drills == SortByConfidence(items)
             IN  SubSeq(sorted_drills, 1, Min(n, Len(sorted_drills)))

(***************************************************************************)
(* Measurement reliability                                                 *)
(***************************************************************************)
\* samples are in tenths, NaN is None; std is kept in hundredths and cv in
\* hundredths, both rounded down, which leaves every comparison with the
\* thresholds 10.0, 20.0, 0.15 and 0.30 exact
dropna(values) == SelectSeq(values, LAMBDA v : ~IsNone(v))

\* mean, std and cv of the non-missing values of one column: np.std is the
\* population standard deviation, and cv is 0.0 when the mean is 0
ColumnStatistics(values) ==
    LET numbers == [i \in 1..Len(values) |-> values[i][1]]
        count == Len(numbers)
        total == SumSeq(numbers)
        \* n * sum(x^2) - sum(x)^2 = (n * std)^2, in tenths squared
        spread == count * SumSeq([i \in 1..count |-> numbers[i] * numbers[i]])
                  - total * total
    IN  [mean |-> (total * 10) \div count,
         std |-> ISqrt(spread * 100) \div count,
         cv |-> IF total # 0 THEN ISqrt(spread * 10000) \div total ELSE 0]

compute_confidence_statistics(features_df) ==
    LET assessed == {metric \in DOMAIN features_df :
                        Len(dropna(features_df[metric])) > 0}
    IN  [metric \in assessed |-> ColumnStatistics(dropna(features_df[metric]))]

\* a test that takes rotation metrics for angles as well
IsAngleMetricOrRotation(metric) ==
    Contains(metric, str_angle) \/ Contains(metric, str_rotation)

\* 'angle' in metric
IsAngleMetric(metric) == Contains(metric, str_angle)

assess_measurement_reliability(confidence_stats) ==
    [metric \in DOMAIN confidence_stats |->
        LET cv == confidence_stats[metric].cv
            std == confidence_stats[metric].std
            level ==
                IF IsAngleMetric(metric)
                THEN IF std < 1000 THEN "High"
                     ELSE IF std < 2000 THEN "Medium"
                     ELSE "Low"
                ELSE IF cv < 15 THEN "High"
                     ELSE IF cv < 30 THEN "Medium"
                     ELSE "Low"
        IN  [level |-> level, cv |-> cv, std |-> std]]

(***************************************************************************)
(* Stroke phase segmentation (features.py)                                 *)
(***************************************************************************)
\* int(frames * tenths / 10) for a non-negative frame number; the float
\* product truncates to the same integer for frame numbers below 90
IntOfTenths(frames, tenths) == (frames * tenths) \div 10

\* segment_stroke_phases: prep_candidate is the first frame before
\* prep_search_end whose smoothed hip rotation change exceeds the 0.6
\* quantile, load_candidate the first frame between prep_end and the impact
\* whose smoothed wrist speed exceeds 20% of the maximum; either is None
\* when the signal has no such frame
segment_stroke_phases(total_frames, impact_frame, prep_candidate, load_candidate) ==
    LET prep_end == IF ~IsNone(prep_candidate) THEN prep_candidate[1]
                    ELSE Max(1, IntOfTenths(impact_frame, 3))
        load_end == IF ~IsNone(load_candidate) THEN load_candidate[1]
                    ELSE Max(prep_end + 1, IntOfTenths(impact_frame, 6))
        contact_window == 5
        contact_start == Max(load_end + 1, impact_frame - contact_window)
        contact_end == Min(impact_frame + contact_window, total_frames - 1)
        follow_start == contact_end + 1
        follow_end == total_frames - 1
    IN  [preparation |-> <<0, prep_end>>,
         load |-> <<prep_end + 1, load_end>>,
         contact |-> <<contact_start, contact_end>>,
         follow_through |-> <<follow_start, follow_end>>]

(***************************************************************************)
(* SpecIssue: one issue is scored and then classified, as in the loop body *)
(* of generate_adaptive_coaching_focus; the arguments range over values on *)
(* both sides of every threshold of the two functions.                     *)
(***************************************************************************)
IssueMetricNames ==
    {left_elbow_angle, hip_rotation, spine_lean, stance_width_normalized,
     Hip_Rotation_Cap}

IssueDeviations ==
    {-Deci(80, 0), -Deci(50, 0), -Deci(3, 0), Deci(0, 0), Deci(0, 9),
     Deci(1, 0), Deci(1, 4), Deci(1, 5), Deci(2, 0), Deci(2, 9), Deci(3, 0),
     Deci(4, 0), Deci(9, 9), Deci(10, 0), Deci(19, 9), Deci(20, 0),
     Deci(30, 0), Deci(49, 9), Deci(50, 0), Deci(60, 0), Deci(80, 0)}

IssuePhases ==
    {contact, load, follow_through, preparation, impact, Contact_Cap}

IssueReliabilityLevels == {"High", "Medium", "Low", "Unknown"}

IssueStabilities ==
    {Deci(0, 0), Deci(69, 9), Deci(70, 0), Deci(90, 0), Deci(100, 0)}

IssueProgressDeltas ==
    {-Deci(12, 0), -Deci(5, 1), -Deci(5, 0), Deci(0, 0), Deci(5, 0),
     Deci(5, 1), Deci(8, 0), Deci(12, 0)}

IssueInit ==
    /\ pc = "call"
    /\ issue \in [metric_name : IssueMetricNames,
                  deviation : IssueDeviations,
                  phase : IssuePhases,
                  reliability_level : IssueReliabilityLevels,
                  phase_stability : IssueStabilities,
                  progress_delta : IssueProgressDeltas]
    /\ priority_data = NoResult
    /\ classification_data = NoResult
    /\ now = 0
    /\ outputs = EmptyDict
    /\ outcome_file = NoFile
    /\ run = NoResult
    /\ produced = EmptyDict

ScoreIssue ==
    /\ pc = "call"
    /\ priority_data' =
          compute_issue_priority_score(issue.metric_name, issue.deviation,
              issue.phase, issue.reliability_level, issue.phase_stability,
              issue.progress_delta)
    /\ pc' = "scored"
    /\ UNCHANGED <<issue, classification_data, pipelineVars>>

ClassifyIssue ==
    /\ pc = "scored"
    /\ classification_data' =
          classify_coaching_issue(issue.metric_name, issue.deviation,
              issue.reliability_level, issue.progress_delta,
              issue.phase_stability)
    /\ pc' = "classified"
    /\ UNCHANGED <<issue, priority_data, pipelineVars>>

IssueNext == ScoreIssue \/ ClassifyIssue

SpecIssue == IssueInit /\ [][IssueNext]_vars

(***************************************************************************)
(* run_pipeline: runs of the pipeline, one after the other, against one    *)
(* outputs/ directory that starts empty                                    *)
(***************************************************************************)
\* the number of pipeline runs explored
MaxRuns == 2

\* the largest number of cues one session's ranking holds
MaxCues == 2

\* cues as rank_cues_by_deviation builds them:
\* (priority_score, cue_text, metric_name, deviation, phase)
cue_hip ==
    <<Deci(150, 0), "Rotate your hips more", hip_rotation, -Deci(60, 0), contact>>
cue_stance ==
    <<Deci(15, 0), "Set up with a wider base", stance_width_normalized,
      -Deci(0, 6), preparation>>
cue_spine ==
    <<Deci(15, 6), "Maintain better balance", spine_lean, Deci(12, 0),
      follow_through>>

CueCatalog == {cue_hip, cue_stance, cue_spine}

\* cue_candidates.sort(key=lambda x: x[0], reverse=True)
RECURSIVE RankCues(_)
RankCues(cues) ==
    IF cues = {} THEN <<>>
    ELSE LET top == CHOOSE c \in cues : \A other \in cues : other[1] <= c[1]
         IN  <<top>> \o RankCues(cues \ {top})

RankedCueLists ==
    {RankCues(cues) : cues \in {c \in SUBSET CueCatalog : Cardinality(c) <= MaxCues}}

\* assess_measurement_reliability: metric -> level; empty when the
\* reliability step failed and left user_reliability at None
ReliabilityOf(level) ==
    [m \in {hip_rotation, stance_width_normalized, spine_lean, left_elbow_angle}
        |-> [level |-> level]]

ReliabilityMaps == {EmptyDict, ReliabilityOf("High"), ReliabilityOf("Low")}

\* compute_intra_phase_stability: phase -> overall_score
StabilityMaps ==
    {EmptyDict,
     [p \in {preparation, load, contact, follow_through}
        |-> [overall_score |-> Deci(90, 0)]]}

\* what the feature collaborators measured in one session: the per-phase
\* metric averages and the similarity scores computed from them
Measured(hip, stance, spine, score) ==
    [user_phase_metrics |->
        [p \in {preparation, load, contact, follow_through} |->
            [m \in {hip_rotation, stance_width_normalized, spine_lean} |->
                CASE m = hip_rotation -> hip
                  [] m = stance_width_normalized -> stance
                  [] m = spine_lean -> spine]],
     overall_score |-> score,
     phase_scores |->
        [p \in {preparation, load, contact, follow_through} |-> score]]

Measurements ==
    {Measured(Deci(20, 0), Deci(1, 2), Deci(14, 0), Deci(50, 0)),
     Measured(Deci(35, 0), Deci(1, 5), Deci(9, 0), Deci(62, 0))}

\* a session directory before anything is written into it
EmptyDir == [report |-> None, drill_recommendations |-> None]

\* the locals of run_pipeline before the run sets them
IdleRun ==
    [number |-> 0,
     session_id |-> None,
     ranked_cues |-> <<>>,
     user_reliability |-> EmptyDict,
     user_phase_stability |-> EmptyDict,
     user_phase_metrics |-> EmptyDict,
     overall_score |-> Deci(0, 0),
     phase_scores |-> EmptyDict,
     phase_weighted_score |-> Deci(0, 0),
     previous_session_id |-> None,
     progress_deltas |-> EmptyDict,
     adaptive_focus |-> NoFocus,
     drill_recommendations |-> EmptyDict,
     outcomes |-> <<>>,
     saved |-> None,
     tracking_end |-> "ok"]

IdleIssue ==
    /\ issue = NoResult
    /\ priority_data = NoResult
    /\ classification_data = NoResult

IdlePipeline ==
    /\ now = 0
    /\ outputs = EmptyDict
    /\ outcome_file = NoFile
    /\ run = IdleRun
    /\ produced = EmptyDict

RunInit ==
    /\ pc = "idle"
    /\ IdlePipeline
    /\ IdleIssue

\* generate_session_id and create_session_directory: the id is the clock
\* reading, which is the previous reading or a later second; mkdir with
\* exist_ok keeps a directory that is already there
StartRun ==
    /\ pc \in {"idle", "done"}
    /\ run.number < MaxRuns
    /\ \E elapsed \in {0, 1} :
          /\ now' = now + elapsed
          /\ run' = [IdleRun EXCEPT !.number = run.number + 1,
                                    !.session_id = Some(now')]
          /\ outputs' = IF now' \in DOMAIN outputs THEN outputs
                        ELSE Put(outputs, now', EmptyDir)
    /\ pc' = "started"
    /\ UNCHANGED <<issueVars, outcome_file, produced>>

\* steps 1-4.6 and 4.9: the collaborators' results for this session
Analyse ==
    /\ pc = "started"
    /\ \E ranked_cues \in RankedCueLists, user_reliability \in ReliabilityMaps,
          user_phase_stability \in StabilityMaps, measured \in Measurements :
          run' = [run EXCEPT
                    !.ranked_cues = ranked_cues,
                    !.user_reliability = user_reliability,
                    !.user_phase_stability = user_phase_stability,
                    !.user_phase_metrics = measured.user_phase_metrics,
                    !.overall_score = measured.overall_score,
                    !.phase_scores = measured.phase_scores,
                    !.phase_weighted_score =
                        compute_phase_weighted_score(measured.phase_scores)]
    /\ pc' = "analysed"
    /\ UNCHANGED <<issueVars, now, outputs, outcome_file, produced>>

\* step 4.7: progress tracking against the previous session
TrackProgress ==
    /\ pc = "analysed"
    /\ LET previous_session_id == find_previous_session(run.session_id[1])
           previous_metrics ==
               IF IsNone(previous_session_id) THEN EmptyDict
               ELSE load_previous_metrics(previous_session_id[1])
           current_metrics ==
               [overall_score |-> run.overall_score,
                phase_weighted_score |-> run.phase_weighted_score,
                phase_scores |-> run.phase_scores]
       IN  run' = [run EXCEPT
                     !.previous_session_id = previous_session_id,
                     !.progress_deltas =
                         IF Truthy(previous_metrics)
                         THEN compute_progress_deltas(current_metrics,
                                                      previous_metrics)
                         ELSE EmptyDict]
    /\ pc' = "tracked"
    /\ UNCHANGED <<issueVars, now, outputs, outcome_file, produced>>

\* report sections that leave out every drill the outcome store has a
\* history for
ReportSectionsUsingHistory(ranked_cues, user_reliability, user_phase_stability, progress_deltas) ==
    LET has_focus == Truthy(user_reliability) /\ Len(ranked_cues) > 0
        adaptive_focus ==
            IF has_focus
            THEN generate_adaptive_coaching_focus(ranked_cues, user_reliability,
                     user_phase_stability, progress_deltas)
            ELSE NoFocus
        recommended == generate_adaptive_drill_recommendations(adaptive_focus)
        scores == compute_drill_confidence_scores(outcome_file)
        Untried(drills) ==
            SelectSeq(drills, LAMBDA d : d.drill_name \notin DOMAIN scores)
    IN  [adaptive_focus |-> adaptive_focus,
         drill_recommendations |->
            IF has_focus
            THEN [recommended EXCEPT
                    !.critical_drills = Untried(recommended.critical_drills),
                    !.priority_drills = Untried(recommended.priority_drills)]
            ELSE EmptyDict]

\* the Adaptive Coaching Focus and Recommended Training Interventions
\* sections of generate_report: built when there are reliability data and
\* ranked cues
ReportSections(ranked_cues, user_reliability, user_phase_stability, progress_deltas) ==
    LET has_focus == Truthy(user_reliability) /\ Len(ranked_cues) > 0
        adaptive_focus ==
            IF has_focus
            THEN generate_adaptive_coaching_focus(ranked_cues, user_reliability,
                     user_phase_stability, progress_deltas)
            ELSE NoFocus
    IN  [adaptive_focus |-> adaptive_focus,
         drill_recommendations |->
            IF has_focus
            THEN generate_adaptive_drill_recommendations(adaptive_focus)
            ELSE EmptyDict]

\* step 5: generate_report builds the adaptive focus and the drill
\* recommendations, and the report is written to the session directory
GenerateReport ==
    /\ pc = "tracked"
    /\ LET session_id == run.session_id[1]
           sections == ReportSections(run.ranked_cues, run.user_reliability,
                           run.user_phase_stability, run.progress_deltas)
           adaptive_focus == sections.adaptive_focus
           drill_recommendations == sections.drill_recommendations
           report == ReportText(run.overall_score, run.phase_weighted_score,
                         run.phase_scores, run.user_reliability,
                         run.user_phase_stability)
       IN  /\ run' = [run EXCEPT !.adaptive_focus = adaptive_focus,
                                 !.drill_recommendations = drill_recommendations]
           /\ outputs' = Put(outputs, session_id,
                             [outputs[session_id] EXCEPT !.report = Some(report)])
           /\ produced' = Put(produced, session_id,
                              [drill_recommendations |-> drill_recommendations,
                               user_phase_metrics |-> run.user_phase_metrics])
    /\ pc' = "reported"
    /\ UNCHANGED <<issueVars, now, outcome_file>>

\* the ways probing outputs/<previous>/drill_recommendations.json can end:
\* "ok", or "probe_fails" when the file system raises (permission, I/O)
TrackingEnds == {"ok", "probe_fails"}

\* a tracking block without its except clause
TrackingBlockUnguarded(attempt) == attempt

\* try: <step 5.5> / except Exception: print(...), and the run goes on
TrackingBlock(attempt) == Caught(attempt, None)

\* step 5.5: drill outcome tracking, then the run returns True
TrackOutcomes ==
    /\ pc = "reported"
    /\ LET probing ==
               /\ ~IsNone(run.previous_session_id)
               /\ Truthy(run.user_phase_metrics)
       IN  \E tracking_end \in IF probing THEN TrackingEnds ELSE {"ok"},
              write_end \in WriteEnds :
              LET tracking ==
                      /\ probing
                      /\ tracking_end = "ok"
                      /\ ~IsNone(outputs[run.previous_session_id[1]].drill_recommendations)
                  outcomes ==
                      IF tracking
                      THEN track_drill_outcomes(run.previous_session_id[1], None,
                               run.user_phase_metrics,
                               outputs[run.previous_session_id[1]].drill_recommendations[1],
                               run.session_id[1], run.user_reliability)
                      ELSE <<>>
                  saving == save_drill_outcomes(outcome_file, outcomes, write_end)
                  block ==
                      TrackingBlock(
                          IF tracking_end = "probe_fails" THEN Raised
                          ELSE IF Len(outcomes) > 0 /\ saving.raised THEN Raised
                          ELSE Returned(None))
              IN  /\ IF Len(outcomes) > 0
                     THEN /\ outcome_file' = saving.file
                          /\ run' = [run EXCEPT !.outcomes = outcomes,
                                                !.saved = Some(saving.returns),
                                                !.tracking_end = tracking_end]
                     ELSE /\ outcome_file' = outcome_file
                          /\ run' = [run EXCEPT !.outcomes = outcomes,
                                                !.tracking_end = tracking_end]
                  /\ pc' = IF block.raised THEN "aborted" ELSE "done"
    /\ UNCHANGED <<issueVars, now, outputs, produced>>

RunNext == StartRun \/ Analyse \/ TrackProgress \/ GenerateReport \/ TrackOutcomes

SpecRun == RunInit /\ [][RunNext]_vars

(***************************************************************************)
(* SpecOutcome: track_drill_outcomes is called once on given               *)
(* prescriptions and metric tables, and save_drill_outcomes is then called *)
(* with its result, repeatedly, on a store that starts absent, holding a   *)
(* record, or unparsable.  Here run holds the arguments and results of the *)
(* calls and the store as it was before them.                              *)
(***************************************************************************)
\* the number of save_drill_outcomes calls explored
MaxSaves == 2

drill_hip ==
    Drill(hip_rotation, contact, "Medicine Ball Rotational Throws",
          "intensive", Pts(95), "HIGH")
drill_spine ==
    Drill(spine_lean, follow_through, "Mirror Posture Check",
          "intensive", Pts(82), "HIGH")
drill_stance ==
    Drill(stance_width_normalized, preparation, "Cone Placement Training",
          "moderate", Pts(48), "MODERATE")
drill_general ==
    Drill(str_general, str_all, "Slow-Motion Shadow Strokes",
          "moderate", Pts(50), "MODERATE")
drill_hip_light ==
    Drill(hip_rotation, load, "Medicine Ball Rotational Throws",
          "light", Pts(40), "MAINTENANCE")

\* prescriptions as generate_adaptive_drill_recommendations returns them,
\* the empty dict, and a dict without two of the three lists
PrescriptionInputs ==
    {[critical_drills |-> c, priority_drills |-> p, maintenance_drills |-> m,
      suppressed_count |-> 0] :
        c \in {<<>>, <<drill_hip>>, <<drill_hip, drill_spine>>},
        p \in {<<>>, <<drill_stance>>, <<drill_general>>},
        m \in {<<>>, <<drill_hip_light>>}}
    \cup {EmptyDict, [priority_drills |-> <<drill_stance, drill_hip>>]}

\* a phase-metric table: every phase in phases holds every metric in
\* metrics, with the value base + an offset per phase
MetricTable(phases, metrics, base) ==
    [p \in phases |->
        [m \in metrics |->
            base + (CASE p = preparation -> 1 [] p = load -> 2
                      [] p = contact -> 3 [] OTHER -> 4)]]

PreviousMetricInputs ==
    {EmptyDict,
     MetricTable({preparation, load, contact, follow_through},
                 {hip_rotation, stance_width_normalized, spine_lean}, Deci(20, 0)),
     MetricTable({preparation, load, contact, follow_through},
                 {stance_width_normalized, spine_lean}, Deci(20, 0)),
     MetricTable({preparation, load, contact},
                 {hip_rotation, stance_width_normalized, spine_lean}, Deci(0, 0))}

CurrentMetricInputs ==
    {EmptyDict,
     MetricTable({preparation, load, contact, follow_through},
                 {hip_rotation, stance_width_normalized, spine_lean}, Deci(12, 0)),
     MetricTable({load, contact, follow_through},
                 {hip_rotation, spine_lean}, Deci(31, 0))}

\* a record an earlier run left in the store
StoredOutcomes ==
    <<[previous_session_id |-> -2,
       current_session_id |-> -1,
       metric_name |-> hip_rotation,
       phase |-> contact,
       drill_name |-> "Hip Rotation Shadow Swings",
       intensity |-> "moderate",
       classification |-> "MODERATE",
       pre_value |-> Deci(10, 0),
       post_value |-> Deci(15, 0),
       delta |-> Deci(5, 0),
       reliability |-> "High",
       timestamp |-> -1]>>

StoreInputs == {NoFile, JsonFile(StoredOutcomes), CorruptFile}

OutcomeInit ==
    /\ pc = "call"
    /\ IdleIssue
    /\ now = 0
    /\ outputs = EmptyDict
    /\ produced = EmptyDict
    /\ outcome_file \in StoreInputs
    /\ run \in [store : {outcome_file},
                drill_recommendations : PrescriptionInputs,
                previous_session_metrics : PreviousMetricInputs,
                current_session_metrics : CurrentMetricInputs,
                reliability_data : {EmptyDict, ReliabilityOf("High")},
                outcomes : {<<>>},
                saves : {<<>>}]

\* outcomes = track_drill_outcomes(...), between session 0 and session 1
TrackCall ==
    /\ pc = "call"
    /\ run' = [run EXCEPT !.outcomes =
                  track_drill_outcomes(0, run.previous_session_metrics,
                      run.current_session_metrics, run.drill_recommendations,
                      1, run.reliability_data)]
    /\ pc' = "tracked"
    /\ UNCHANGED <<issueVars, now, outputs, outcome_file, produced>>

\* save_drill_outcomes(outcomes); saves logs what each call returned
SaveCall ==
    /\ pc \in {"tracked", "saved"}
    /\ Len(run.saves) < MaxSaves
    /\ \E write_end \in WriteEnds :
          LET saving == save_drill_outcomes(outcome_file, run.outcomes, write_end)
          IN  /\ outcome_file' = saving.file
              /\ run' = [run EXCEPT !.saves = Append(run.saves, saving.returns)]
    /\ pc' = "saved"
    /\ UNCHANGED <<issueVars, now, outputs, produced>>

OutcomeNext == TrackCall \/ SaveCall

SpecOutcome == OutcomeInit /\ [][OutcomeNext]_vars

(***************************************************************************)
(* SpecConcurrent: two save_drill_outcomes calls on the same store, each   *)
(* a sequence of three steps (load and extend, open for writing, dump)     *)
(* that interleave freely; every write succeeds.  Here pc maps each call   *)
(* to its position and run holds the calls' arguments and locals.          *)
(***************************************************************************)
Savers == {1, 2}

\* the k-th record that call s saves
SaverOutcome(s, k) ==
    [previous_session_id |-> s - 1,
     current_session_id |-> s,
     metric_name |-> IF k = 1 THEN hip_rotation ELSE spine_lean,
     phase |-> IF k = 1 THEN contact ELSE follow_through,
     drill_name |-> IF k = 1 THEN "Medicine Ball Rotational Throws"
                    ELSE "Mirror Posture Check",
     intensity |-> "intensive",
     classification |-> "HIGH",
     pre_value |-> Deci(20, 0),
     post_value |-> Deci(20, 0) + Deci(s, k),
     delta |-> Deci(s, k),
     reliability |-> "High",
     timestamp |-> s]

SaverOutcomeLists(s) ==
    {<<SaverOutcome(s, 1)>>, <<SaverOutcome(s, 1), SaverOutcome(s, 2)>>}

\* a write-back that keeps what the file holds when it is written
WriteBackKeeping(file, existing_outcomes) ==
    JsonFile((IF file.exists /\ file.parses THEN file.records ELSE <<>>)
             \o existing_outcomes)

\* json.dump(existing_outcomes, f): the file becomes the dumped list
WriteBack(file, existing_outcomes) == JsonFile(existing_outcomes)

ConcurrentInit ==
    /\ pc = [s \in Savers |-> "load"]
    /\ IdleIssue
    /\ now = 0
    /\ outputs = EmptyDict
    /\ produced = EmptyDict
    /\ outcome_file \in StoreInputs
    /\ \E first \in SaverOutcomeLists(1), second \in SaverOutcomeLists(2) :
          run = [store |-> outcome_file,
                 outcomes |-> <<first, second>>,
                 existing_outcomes |-> <<(<<>>), (<<>>)>>,
                 overlapped |-> FALSE]

\* whether another call has loaded the store and not yet written it back
OtherInProgress(s) == \E o \in Savers \ {s} : pc[o] \in {"open", "dump"}

\* existing_outcomes = json.load(f), [] when the file is absent or
\* unparsable; existing_outcomes.extend(outcomes)
LoadStep(s) ==
    /\ pc[s] = "load"
    /\ run' = [run EXCEPT
                 !.existing_outcomes[s] = LoadExisting(outcome_file) \o run.outcomes[s],
                 !.overlapped = run.overlapped \/ OtherInProgress(s)]
    /\ pc' = [pc EXCEPT ![s] = "open"]
    /\ UNCHANGED <<issueVars, now, outputs, outcome_file, produced>>

\* open(outcome_file, 'w') truncates the file
OpenStep(s) ==
    /\ pc[s] = "open"
    /\ outcome_file' = CorruptFile
    /\ run' = [run EXCEPT !.overlapped = run.overlapped \/ OtherInProgress(s)]
    /\ pc' = [pc EXCEPT ![s] = "dump"]
    /\ UNCHANGED <<issueVars, now, outputs, produced>>

\* json.dump(existing_outcomes, f, indent=2); return True
DumpStep(s) ==
    /\ pc[s] = "dump"
    /\ outcome_file' = WriteBack(outcome_file, run.existing_outcomes[s])
    /\ run' = [run EXCEPT !.overlapped = run.overlapped \/ OtherInProgress(s)]
    /\ pc' = [pc EXCEPT ![s] = "done"]
    /\ UNCHANGED <<issueVars, now, outputs, produced>>

ConcurrentNext == \E s \in Savers : LoadStep(s) \/ OpenStep(s) \/ DumpStep(s)

SpecConcurrent == ConcurrentInit /\ [][ConcurrentNext]_vars

(***************************************************************************)
(* SpecRecover: the three operations that read persisted data are each     *)
(* called once, in any order, on a store and on a previous session's       *)
(* report that may be absent, unparsable or well formed.  Here pc is the   *)
(* set of operations that have returned and run holds what they returned.  *)
(***************************************************************************)
\* the report of a session in which every phase scored 62.0
GoodReport ==
    ReportText(Deci(62, 0), Deci(62, 0),
               [p \in {preparation, load, contact, follow_through} |-> Deci(62, 0)],
               EmptyDict, EmptyDict)

ReportInputs ==
    {None, Some(UnreadableReport), Some(BlankReport), Some(GoodReport)}

RecoverInit ==
    /\ pc = {}
    /\ IdleIssue
    /\ now = 0
    /\ produced = EmptyDict
    /\ outcome_file \in StoreInputs
    /\ \E report \in ReportInputs :
          outputs = Put(EmptyDict, 0, [EmptyDir EXCEPT !.report = report])
    /\ \E outcomes \in {<<>>} \cup SaverOutcomeLists(1) :
          run = [outcomes |-> outcomes,
                 save |-> NoResult,
                 scores |-> NoResult,
                 metrics |-> NoResult]

\* save_drill_outcomes(outcomes)
RecoverSave ==
    /\ "save" \notin pc
    /\ \E write_end \in WriteEnds :
          LET saving == save_drill_outcomes(outcome_file, run.outcomes, write_end)
          IN  /\ outcome_file' = saving.file
              /\ run' = [run EXCEPT !.save =
                            [store |-> outcome_file,
                             write_end |-> write_end,
                             returns |-> saving.returns,
                             raised |-> saving.raised]]
    /\ pc' = pc \cup {"save"}
    /\ UNCHANGED <<issueVars, now, outputs, produced>>

\* compute_drill_confidence_scores()
RecoverScores ==
    /\ "scores" \notin pc
    /\ run' = [run EXCEPT !.scores =
                  [store |-> outcome_file,
                   call |-> TryComputeDrillConfidenceScores(outcome_file)]]
    /\ pc' = pc \cup {"scores"}
    /\ UNCHANGED <<issueVars, now, outputs, outcome_file, produced>>

\* load_previous_metrics(previous_session_id)
RecoverMetrics ==
    /\ "metrics" \notin pc
    /\ run' = [run EXCEPT !.metrics = [call |-> TryLoadPreviousMetrics(0)]]
    /\ pc' = pc \cup {"metrics"}
    /\ UNCHANGED <<issueVars, now, outputs, outcome_file, produced>>

RecoverNext == RecoverSave \/ RecoverScores \/ RecoverMetrics

SpecRecover == RecoverInit /\ [][RecoverNext]_vars

(***************************************************************************)
(* SpecTwin: the focus and drill sections of a report are built twice from *)
(* the same session inputs, the outcome store being replaced by a          *)
(* different one in between.  Here run holds the inputs, the second store  *)
(* and the sections built so far.                                          *)
(***************************************************************************)
TwinStores ==
    StoreInputs \cup {JsonFile(<<SaverOutcome(1, 1)>>),
                      JsonFile(<<SaverOutcome(1, 1), SaverOutcome(1, 2)>>
                               \o StoredOutcomes)}

\* progress_deltas as compute_progress_deltas returns them for a session
\* that scored 62.0 after one that scored 50.0
TwinProgress ==
    compute_progress_deltas(
        [overall_score |-> Deci(62, 0), phase_weighted_score |-> Deci(62, 0),
         phase_scores |-> [p \in {preparation, load, contact} |-> Deci(62, 0)]],
        [overall_score |-> Deci(50, 0), phase_weighted_score |-> Deci(50, 0),
         phase_scores |-> [p \in {preparation, load, contact} |-> Deci(50, 0)]])

TwinInit ==
    /\ pc = "first"
    /\ IdleIssue
    /\ now = 0
    /\ outputs = EmptyDict
    /\ produced = EmptyDict
    /\ outcome_file \in TwinStores
    /\ run \in [ranked_cues : RankedCueLists,
                user_reliability : ReliabilityMaps,
                user_phase_stability : StabilityMaps,
                progress_deltas : {EmptyDict, TwinProgress},
                other_store : TwinStores \ {outcome_file},
                sections : {<<>>}]

\* generate_report builds its focus and drill sections
TwinReport ==
    /\ pc \in {"first", "second"}
    /\ run' = [run EXCEPT !.sections =
                  Append(run.sections,
                         ReportSections(run.ranked_cues, run.user_reliability,
                             run.user_phase_stability, run.progress_deltas))]
    /\ pc' = IF pc = "first" THEN "swap" ELSE "compared"
    /\ UNCHANGED <<issueVars, now, outputs, outcome_file, produced>>

\* the same session is analysed against the other outcome history
TwinSwapStore ==
    /\ pc = "swap"
    /\ outcome_file' = run.other_store
    /\ pc' = "second"
    /\ UNCHANGED <<issueVars, now, outputs, run, produced>>

TwinNext == TwinReport \/ TwinSwapStore

SpecTwin == TwinInit /\ [][TwinNext]_vars

(***************************************************************************)
(* SpecDrills: generate_adaptive_coaching_focus is called on ranked cues,  *)
(* reliability levels, phase stabilities and phase deltas, and             *)
(* generate_adaptive_drill_recommendations on its result.  Here run holds  *)
(* the arguments and the results of the two calls.                         *)
(***************************************************************************)
\* six cues on six metrics, one per drill category; with cue_hip,
\* cue_stance and cue_spine they are the follow-through elbow cue
\* (|diff| * 1.2), the load-phase knee cue (diff * 1.8) and the
\* preparation shoulder cue (diff * 1.5)
cue_elbow ==
    <<Deci(60, 0), "Extend your arms more through the finish", left_elbow_angle,
      -Deci(50, 0), follow_through>>
cue_knee ==
    <<Deci(90, 0), "Drop your center of gravity more", knee_angle_avg,
      Deci(50, 0), load>>
cue_shoulder ==
    <<Deci(45, 0), "Turn your shoulders earlier", left_shoulder_angle,
      Deci(30, 0), preparation>>

DrillCueCatalog ==
    {cue_hip, cue_elbow, cue_knee, cue_spine, cue_shoulder, cue_stance}

DrillMetrics ==
    {hip_rotation, left_elbow_angle, knee_angle_avg, spine_lean,
     left_shoulder_angle, stance_width_normalized}

\* reliability levels per metric: one level for the metrics in a group and
\* one for the others
DrillReliabilityMaps ==
    {[m \in DrillMetrics |-> [level |-> IF m \in group THEN inside ELSE outside]] :
        group \in {{hip_rotation, left_elbow_angle},
                   {hip_rotation, spine_lean, stance_width_normalized}},
        inside \in {"High", "Medium", "Low"},
        outside \in {"High", "Medium", "Low"}}

DrillStabilityMaps ==
    {[p \in {preparation, load, contact, follow_through} |-> [overall_score |-> score]] :
        score \in {Deci(90, 0), Deci(60, 0)}}

\* progress_deltas holding phase deltas under the key the focus reads
DrillProgressDeltas ==
    {EmptyDict,
     [phase_scores |->
        [p \in {preparation, load, contact, follow_through} |-> [delta |-> -Deci(8, 0)]]],
     [phase_scores |->
        [p \in {preparation, load, contact, follow_through} |->
            [delta |-> IF p \in {contact, preparation} THEN -Deci(8, 0)
                       ELSE Deci(8, 0)]]]}

DrillsInit ==
    /\ pc = "call"
    /\ IdleIssue
    /\ now = 0
    /\ outputs = EmptyDict
    /\ produced = EmptyDict
    /\ outcome_file = NoFile
    /\ run \in [ranked_cues : {RankCues(cues) : cues \in SUBSET DrillCueCatalog},
                user_reliability : DrillReliabilityMaps,
                user_phase_stability : DrillStabilityMaps,
                progress_deltas : DrillProgressDeltas,
                adaptive_focus : {NoFocus},
                drill_recommendations : {EmptyDict}]

\* adaptive_focus = generate_adaptive_coaching_focus(...)
FocusCall ==
    /\ pc = "call"
    /\ run' = [run EXCEPT !.adaptive_focus =
                  generate_adaptive_coaching_focus(run.ranked_cues,
                      run.user_reliability, run.user_phase_stability,
                      run.progress_deltas)]
    /\ pc' = "focused"
    /\ UNCHANGED <<issueVars, now, outputs, outcome_file, produced>>

\* drill_recommendations = generate_adaptive_drill_recommendations(adaptive_focus)
DrillsCall ==
    /\ pc = "focused"
    /\ run' = [run EXCEPT !.drill_recommendations =
                  generate_adaptive_drill_recommendations(run.adaptive_focus)]
    /\ pc' = "recommended"
    /\ UNCHANGED <<issueVars, now, outputs, outcome_file, produced>>

DrillsNext == FocusCall \/ DrillsCall

SpecDrills == DrillsInit /\ [][DrillsNext]_vars

(***************************************************************************)
(* SpecCategory: map_metric_to_drill_category is called on a metric name.  *)
(* Here run holds the argument and the result of the call.                 *)
(***************************************************************************)
MaxWords == 3

\* the words metric names are made of, two of them in capitals
str_HIP == <<"H", "I", "P">>
str_Elbow == <<"E", "l", "b", "o", "w">>
NameWords ==
    {str_hip, str_rotation, str_elbow, str_knee, str_stance, str_width,
     str_spine, str_lean, str_shoulder, str_angle, str_HIP, str_Elbow}

\* words joined by underscores, as in 'stance_width_normalized'
RECURSIVE JoinWords(_)
JoinWords(words) ==
    IF Len(words) = 1 THEN words[1]
    ELSE words[1] \o <<"_">> \o JoinWords(Tail(words))

MetricNameInputs ==
    {JoinWords(words) : words \in UNION {[1..n -> NameWords] : n \in 1..MaxWords}}

CategoryInit ==
    /\ pc = "call"
    /\ IdleIssue
    /\ now = 0
    /\ outputs = EmptyDict
    /\ produced = EmptyDict
    /\ outcome_file = NoFile
    /\ run \in [metric_name : MetricNameInputs, category : {None}]

CategoryCall ==
    /\ pc = "call"
    /\ run' = [run EXCEPT !.category = Some(map_metric_to_drill_category(run.metric_name))]
    /\ pc' = "mapped"
    /\ UNCHANGED <<issueVars, now, outputs, produced, outcome_file>>

CategoryNext == CategoryCall

SpecCategory == CategoryInit /\ [][CategoryNext]_vars

(***************************************************************************)
(* SpecSessions: two invocations of run_pipeline share the outputs         *)
(* directory and the clock.  Each one generates its session id and creates *)
(* its directory, looks for the previous session (step 4.7) and writes its *)
(* report (step 5).  Here pc and run are per invocation.                   *)
(***************************************************************************)
Runners == {1, 2}

\* seconds the clock can advance while the invocations run
MaxClock == 2

\* the report of an invocation, which scored 50.0 + 10 * runner overall
RunnerReport(r) ==
    ReportText(Deci(50 + 10 * r, 0), Deci(50 + 10 * r, 0),
               [p \in {preparation, load, contact, follow_through}
                   |-> Deci(50 + 10 * r, 0)],
               EmptyDict, EmptyDict)

SessionsInit ==
    /\ pc = [r \in Runners |-> "idle"]
    /\ IdleIssue
    /\ now = 0
    /\ outputs = EmptyDict
    /\ produced = EmptyDict
    /\ outcome_file = NoFile
    /\ run = [r \in Runners |-> [session_id |-> None, previous_session_id |-> None]]

\* datetime.now() moves on between any two steps
Tick ==
    /\ now < MaxClock
    /\ now' = now + 1
    /\ UNCHANGED <<issueVars, pc, outputs, produced, outcome_file, run>>

\* generate_session_id and create_session_directory: the id is the clock
\* reading to the second; mkdir with exist_ok keeps a directory that is
\* already there
StartSession(r) ==
    /\ pc[r] = "idle"
    /\ run' = [run EXCEPT ![r].session_id = Some(now)]
    /\ outputs' = IF now \in DOMAIN outputs THEN outputs
                  ELSE Put(outputs, now, EmptyDir)
    /\ pc' = [pc EXCEPT ![r] = "started"]
    /\ UNCHANGED <<issueVars, now, produced, outcome_file>>

\* step 4.7: find_previous_session on the directories as they are by then
FindPreviousStep(r) ==
    /\ pc[r] = "started"
    /\ run' = [run EXCEPT ![r].previous_session_id =
                              find_previous_session(run[r].session_id[1])]
    /\ pc' = [pc EXCEPT ![r] = "tracked"]
    /\ UNCHANGED <<issueVars, now, outputs, produced, outcome_file>>

\* step 5: the report is written to the session directory
WriteReportStep(r) ==
    /\ pc[r] = "tracked"
    /\ outputs' = Put(outputs, run[r].session_id[1],
                      [outputs[run[r].session_id[1]] EXCEPT
                          !.report = Some(RunnerReport(r))])
    /\ pc' = [pc EXCEPT ![r] = "done"]
    /\ UNCHANGED <<issueVars, now, produced, outcome_file, run>>

SessionsNext ==
    \/ Tick
    \/ \E r \in Runners : StartSession(r)
    \/ \E r \in Runners : FindPreviousStep(r)
    \/ \E r \in Runners : WriteReportStep(r)

SpecSessions == SessionsInit /\ [][SessionsNext]_vars

(***************************************************************************)
(* SpecConfidence: compute_drill_confidence_scores and                     *)
(* get_top_effective_drills are called on an outcome store.  Here run      *)
(* holds what the two calls returned.                                      *)
(***************************************************************************)
MaxHistory == 3
MaxTop == 2

\* a stored outcome of the hip drill (k = 1) or the posture drill
HistoryOutcome(k, delta, reliability) ==
    [previous_session_id |-> -2,
     current_session_id |-> -1,
     metric_name |-> IF k = 1 THEN hip_rotation ELSE spine_lean,
     phase |-> IF k = 1 THEN contact ELSE follow_through,
     drill_name |-> IF k = 1 THEN "Medicine Ball Rotational Throws"
                    ELSE "Mirror Posture Check",
     intensity |-> "intensive",
     classification |-> "HIGH",
     pre_value |-> Deci(40, 0),
     post_value |-> Deci(40, 0) + delta,
     delta |-> delta,
     reliability |-> reliability,
     timestamp |-> -1]

\* deltas beyond both ends of the range the improvement score assumes,
\* a small improvement and no change
HistoryDeltas == {-Deci(30, 0), -Deci(3, 0), Deci(0, 0), Deci(30, 0)}

HistoryOutcomes ==
    {HistoryOutcome(k, delta, reliability) :
        k \in {1, 2}, delta \in HistoryDeltas, reliability \in {"High", "Low"}}

HistoryInputs ==
    {NoFile, CorruptFile}
    \cup {JsonFile(outcomes) :
            outcomes \in UNION {[1..n -> HistoryOutcomes] : n \in 0..MaxHistory}}

ConfidenceInit ==
    /\ pc = "call"
    /\ IdleIssue
    /\ now = 0
    /\ outputs = EmptyDict
    /\ produced = EmptyDict
    /\ outcome_file \in HistoryInputs
    /\ run = [confidence_scores |-> None, n |-> 0, top_drills |-> None]

ScoresCall ==
    /\ pc = "call"
    /\ run' = [run EXCEPT !.confidence_scores =
                              Some(compute_drill_confidence_scores(outcome_file))]
    /\ pc' = "scored"
    /\ UNCHANGED <<issueVars, now, outputs, produced, outcome_file>>

TopCall ==
    /\ pc = "scored"
    /\ \E n \in 0..MaxTop :
          run' = [run EXCEPT !.n = n,
                             !.top_drills = Some(get_top_effective_drills(n, outcome_file))]
    /\ pc' = "ranked"
    /\ UNCHANGED <<issueVars, now, outputs, produced, outcome_file>>

ConfidenceNext == ScoresCall \/ TopCall

SpecConfidence == ConfidenceInit /\ [][ConfidenceNext]_vars

(***************************************************************************)
(* SpecReliability: compute_confidence_statistics is called on the frame   *)
(* features of a video and assess_measurement_reliability on its result    *)
(* (step 4.6).  Here run holds the features and the two results.           *)
(***************************************************************************)
\* a column of two frames, and the same with a frame where the pose was
\* not detected between them
Frames(lo, hi) == <<Some(lo), Some(hi)>>
FramesWithGap(lo, hi) == <<Some(lo), None, Some(hi)>>

\* elbow angles around 40 degrees with std 5, 10, 15 and 20, and a column
\* in which the pose was never detected
ElbowColumns ==
    {Frames(Deci(35, 0), Deci(45, 0)), FramesWithGap(Deci(30, 0), Deci(50, 0)),
     Frames(Deci(25, 0), Deci(55, 0)), Frames(Deci(20, 0), Deci(60, 0)),
     <<None, None>>}

\* hip rotations: std 3 with cv 0.10, 0.15 and 0.30, std 10 with cv 0.25,
\* std 10 with a negative mean, and std 10 with mean 0
HipColumns ==
    {Frames(Deci(27, 0), Deci(33, 0)), Frames(Deci(17, 0), Deci(23, 0)),
     Frames(Deci(7, 0), Deci(13, 0)), Frames(Deci(30, 0), Deci(50, 0)),
     Frames(-Deci(50, 0), -Deci(30, 0)), Frames(-Deci(10, 0), Deci(10, 0)),
     <<None>>}

\* stance widths around 2.0 with cv 0.10, 0.15, 0.25 and 0.30
StanceColumns ==
    {Frames(Deci(1, 8), Deci(2, 2)), FramesWithGap(Deci(1, 7), Deci(2, 3)),
     Frames(Deci(1, 5), Deci(2, 5)), Frames(Deci(1, 4), Deci(2, 6)),
     <<None>>}

FeatureInputs ==
    {[m \in {left_elbow_angle, hip_rotation, stance_width_normalized} |->
        CASE m = left_elbow_angle -> elbow
          [] m = hip_rotation -> hip
          [] m = stance_width_normalized -> stance] :
     elbow \in ElbowColumns, hip \in HipColumns, stance \in StanceColumns}

ReliabilityInit ==
    /\ pc = "call"
    /\ IdleIssue
    /\ now = 0
    /\ outputs = EmptyDict
    /\ produced = EmptyDict
    /\ outcome_file = NoFile
    /\ run \in [features_df : FeatureInputs,
                confidence_stats : {EmptyDict},
                user_reliability : {EmptyDict}]

StatisticsCall ==
    /\ pc = "call"
    /\ run' = [run EXCEPT !.confidence_stats =
                              compute_confidence_statistics(run.features_df)]
    /\ pc' = "measured"
    /\ UNCHANGED <<issueVars, now, outputs, produced, outcome_file>>

AssessCall ==
    /\ pc = "measured"
    /\ run' = [run EXCEPT !.user_reliability =
                              assess_measurement_reliability(run.confidence_stats)]
    /\ pc' = "assessed"
    /\ UNCHANGED <<issueVars, now, outputs, produced, outcome_file>>

ReliabilityNext == StatisticsCall \/ AssessCall

SpecReliability == ReliabilityInit /\ [][ReliabilityNext]_vars

(***************************************************************************)
(* SpecPhases: segment_stroke_phases is called on the features of a video  *)
(* of total_frames frames and its impact frame.  Here run holds the        *)
(* arguments and the result.                                               *)
(***************************************************************************)
MaxFrames == 24

PhasesInit ==
    /\ pc = "call"
    /\ IdleIssue
    /\ now = 0
    /\ outputs = EmptyDict
    /\ produced = EmptyDict
    /\ outcome_file = NoFile
    /\ \E total_frames \in 1..MaxFrames :
          \E impact_frame \in 0..(total_frames - 1) :
              run = [total_frames |-> total_frames,
                     impact_frame |-> impact_frame,
                     phases |-> None]

\* the candidates are what the filters on the frame column allow: the
\* first row has no hip rotation change, so a preparation candidate is a
\* frame from 1 up to prep_search_end - 1
SegmentCall ==
    /\ pc = "call"
    /\ LET prep_search_end == Min(run.impact_frame, IntOfTenths(run.total_frames, 7))
       IN  \E prep_candidate \in {None} \cup {Some(f) : f \in 1..(prep_search_end - 1)} :
             LET prep_end == segment_stroke_phases(run.total_frames, run.impact_frame,
                                 prep_candidate, None).preparation[2]
             IN  \E load_candidate \in
                       {None} \cup {Some(f) : f \in (prep_end + 1)..(run.impact_frame - 1)} :
                   run' = [run EXCEPT !.phases =
                             Some(segment_stroke_phases(run.total_frames,
                                      run.impact_frame, prep_candidate, load_candidate))]
    /\ pc' = "segmented"
    /\ UNCHANGED <<issueVars, now, outputs, produced, outcome_file>>

PhasesNext == SegmentCall

SpecPhases == PhasesInit /\ [][PhasesNext]_vars

(***************************************************************************)
(* Claims about the priority scorer and the issue classifier (SpecIssue)   *)
(***************************************************************************)
Classifications == {"CRITICAL", "PRIORITY", "MONITOR", "SUPPRESS"}

\* the rule table of the classifier as the specification states it
RuleTableClassification(i) ==
    LET angle == Contains(Lower(i.metric_name), str_angle)
        severe == IF angle THEN Abs(i.deviation) >= Deci(50, 0)
                           ELSE Abs(i.deviation) >= Deci(3, 0)
        moderate == IF angle THEN Abs(i.deviation) >= Deci(20, 0)
                             ELSE Abs(i.deviation) >= Deci(1, 5)
        improving == i.progress_delta < -Deci(5, 0)
        consistent == i.phase_stability >= Deci(70, 0)
        reliable == i.reliability_level \in {"High", "Medium"}
        low == i.reliability_level = "Low"
    IN  IF severe /\ i.reliability_level = "High" /\ consistent THEN "CRITICAL"
        ELSE IF severe /\ reliable THEN "PRIORITY"
        ELSE IF moderate /\ reliable /\ ~improving THEN "PRIORITY"
        ELSE IF improving /\ reliable THEN "MONITOR"
        ELSE IF low /\ ~severe THEN "SUPPRESS"
        ELSE IF moderate /\ low THEN "MONITOR"
        ELSE "MONITOR"

\* C1: classify_coaching_issue returns the classification of the first
\* matching rule of the seven-rule table, with severe/moderate/improving/
\* consistent as the table defines them.
C1_FirstMatchingRule ==
    pc = "classified" =>
        classification_data.classification = RuleTableClassification(issue)

\* a severe issue measured with Low reliability: rules 1-5 fail, rule 6 fires
C1_Witness ==
    /\ pc = "classified"
    /\ classification_data.is_severe
    /\ issue.reliability_level = "Low"
    /\ classification_data.branch = 6
    /\ classification_data.classification = "MONITOR"

\* C2: every input combination is classified as exactly one of CRITICAL,
\* PRIORITY, MONITOR, SUPPRESS; none is left unhandled.
C2_ClassificationTotal ==
    pc = "classified" => classification_data.classification \in Classifications

\* an input no explicit rule names (reliability neither High, Medium nor Low,
\* minor deviation) falls to the default branch
C2_Witness ==
    /\ pc = "classified"
    /\ issue.reliability_level = "Unknown"
    /\ ~classification_data.is_moderate
    /\ classification_data.branch = 7
    /\ classification_data.classification = "MONITOR"

\* C3: with phase_stability in [0,100], the five components stay within
\* 0..40, 5..25, 8..20, 0..15 and -10..10 points.
C3_ComponentBounds ==
    pc \in {"scored", "classified"} =>
        /\ 0 <= priority_data.severity /\ priority_data.severity <= Pts(40)
        /\ Pts(5) <= priority_data.reliability
        /\ priority_data.reliability <= Pts(25)
        /\ Pts(8) <= priority_data.phase_importance
        /\ priority_data.phase_importance <= Pts(20)
        /\ 0 <= priority_data.consistency /\ priority_data.consistency <= Pts(15)
        /\ -Pts(10) <= priority_data.progress_modifier
        /\ priority_data.progress_modifier <= Pts(10)

\* a delta beyond the clamp and a stability at the top of its range
C3_Witness ==
    /\ pc = "scored"
    /\ issue.progress_delta = -Deci(12, 0)
    /\ priority_data.progress_modifier = -Pts(10)
    /\ issue.phase_stability = Deci(100, 0)
    /\ priority_data.consistency = Pts(15)

\* C4 as stated: the total priority score never exceeds 100.
C4_TotalAtMost100 ==
    pc \in {"scored", "classified"} => priority_data.total_score <= Pts(100)

\* C4 amended: the total priority score never exceeds 110, the sum of the
\* component caps 40 + 25 + 20 + 15 + 10.
C4_TotalAtMost110 ==
    pc \in {"scored", "classified"} => priority_data.total_score <= Pts(110)

\* every component at its cap
C4_Witness ==
    /\ pc = "scored"
    /\ priority_data.total_score = Pts(110)

\* the component tables as the specification states them
TableSeverity(i) ==
    LET a == Abs(i.deviation)
        n == Lower(i.metric_name)
    IN  IF Contains(n, str_angle) \/ Contains(n, str_rotation)
        THEN CASE a >= Deci(80, 0) -> 40
               [] a < Deci(80, 0) /\ a >= Deci(50, 0) -> 35
               [] a < Deci(50, 0) /\ a >= Deci(30, 0) -> 30
               [] a < Deci(30, 0) /\ a >= Deci(20, 0) -> 20
               [] a < Deci(20, 0) /\ a >= Deci(10, 0) -> 10
               [] a < Deci(10, 0) -> 5
        ELSE CASE a >= Deci(4, 0) -> 40
               [] a < Deci(4, 0) /\ a >= Deci(3, 0) -> 30
               [] a < Deci(3, 0) /\ a >= Deci(2, 0) -> 20
               [] a < Deci(2, 0) /\ a >= Deci(1, 0) -> 10
               [] a < Deci(1, 0) -> 5

TableReliability(i) ==
    CASE i.reliability_level = "High" -> 25
      [] i.reliability_level = "Medium" -> 15
      [] i.reliability_level = "Low" -> 5
      [] OTHER -> 15

TablePhase(i) ==
    CASE i.phase \in {contact, Contact_Cap} -> 20
      [] i.phase = load -> 15
      [] i.phase = follow_through -> 12
      [] i.phase = preparation -> 8
      [] OTHER -> 10

\* in 1/200 points: stability/100*15 and the clamped delta
TableTotal(i) ==
    Pts(TableSeverity(i)) + Pts(TableReliability(i)) + Pts(TablePhase(i))
    + 3 * i.phase_stability
    + (IF i.progress_delta > Deci(5, 0)
         THEN Min(Pts(10), 20 * i.progress_delta)
       ELSE IF i.progress_delta < -Deci(5, 0)
         THEN Max(-Pts(10), 20 * i.progress_delta)
       ELSE 0)

IsWorkedExample(i) ==
    /\ i.metric_name = hip_rotation
    /\ i.deviation = Deci(60, 0)
    /\ i.phase = contact
    /\ i.reliability_level = "High"
    /\ i.phase_stability = Deci(90, 0)
    /\ i.progress_delta = Deci(8, 0)

\* C5: total_score is the sum of the five components, each as its table
\* gives it, and the worked example (hip_rotation, 60, contact, High, 90, +8)
\* scores 35 + 25 + 20 + 13.5 + 8 = 101.5.
C5_TotalIsSumOfTables ==
    pc \in {"scored", "classified"} =>
        /\ priority_data.total_score =
              priority_data.severity + priority_data.reliability
              + priority_data.phase_importance + priority_data.consistency
              + priority_data.progress_modifier
        /\ priority_data.total_score = TableTotal(issue)
        /\ IsWorkedExample(issue) =>
              /\ priority_data.severity = Pts(35)
              /\ priority_data.consistency = Pts(13) + Pts(1) \div 2
              /\ priority_data.total_score = Pts(101) + Pts(1) \div 2

\* the worked example, scored
C5_Witness ==
    /\ pc = "scored"
    /\ IsWorkedExample(issue)
    /\ priority_data.total_score = 20300

(***************************************************************************)
(* Claims about pipeline runs (SpecRun)                                    *)
(***************************************************************************)
\* the adaptive cues the current run's report built
RunCues == run.adaptive_focus.all_adaptive_cues

\* whether the progress tracker produced a delta for the phase in this run
HasPhaseDelta(phase) ==
    /\ Truthy(run.progress_deltas)
    /\ "phase_deltas" \in DOMAIN run.progress_deltas
    /\ phase \in DOMAIN run.progress_deltas["phase_deltas"]

\* C6: when the progress tracker produced a delta for an issue's phase, that
\* delta (current - previous) is the progress_delta given to the priority
\* scorer and to the issue classifier for the issue.
C6_PhaseDeltaReachesScorerAndClassifier ==
    pc \in {"reported", "done"} =>
        \A i \in 1..Len(RunCues) :
            HasPhaseDelta(RunCues[i].phase) =>
                LET c == RunCues[i]
                    d == run.progress_deltas["phase_deltas"][c.phase]
                IN  /\ d.delta = d.current - d.previous
                    /\ c.progress_delta = d.delta
                    /\ c.priority_components.progress_modifier
                          = ProgressModifier(d.delta)
                    /\ c.classification =
                          classify_coaching_issue(c.metric, c.deviation,
                              c.reliability, d.delta, c.phase_stability).classification

\* C7: in a run with no prior session the progress tracker yields no deltas,
\* every issue is scored and classified with progress_delta = 0.0, no issue
\* is classified by rule 4 and every progress modifier is 0.
C7_FirstSessionHasNoProgress ==
    (pc \in {"tracked", "reported", "done"} /\ IsNone(run.previous_session_id)) =>
        /\ ~Truthy(run.progress_deltas)
        /\ \A i \in 1..Len(RunCues) :
              /\ RunCues[i].progress_delta = 0
              /\ RunCues[i].branch # 4
              /\ RunCues[i].priority_components.progress_modifier = 0

\* a first session whose report classified two issues, one of them a minor,
\* reliably measured one
C7_Witness ==
    /\ pc = "reported"
    /\ IsNone(run.previous_session_id)
    /\ Len(RunCues) = 2
    /\ \E i \in 1..Len(RunCues) :
          /\ RunCues[i].reliability = "High"
          /\ RunCues[i].metric = stance_width_normalized
          /\ RunCues[i].classification = "MONITOR"

\* whether a phase-metric table holds a value of the metric in the phase
HasValue(metrics, phase, metric) ==
    /\ Truthy(metrics)
    /\ phase \in DOMAIN metrics
    /\ metric \in DOMAIN metrics[phase]

\* C8: when the previous session prescribed a drill for a specific
\* (metric, phase) and the metric has a phase average in both sessions, the
\* run emits one OutcomeRecord for the drill and appends it to the store.
C8_SecondRunRecordsOutcome ==
    (pc = "done" /\ ~IsNone(run.previous_session_id)
     /\ run.previous_session_id[1] \in DOMAIN produced) =>
        LET before == produced[run.previous_session_id[1]]
            prescribed == AllDrills(before.drill_recommendations)
        IN  \A i \in 1..Len(prescribed) :
                LET d == prescribed[i] IN
                (/\ d.issue_metric # str_general
                 /\ d.issue_phase # str_all
                 /\ HasValue(before.user_phase_metrics, d.issue_phase, d.issue_metric)
                 /\ HasValue(run.user_phase_metrics, d.issue_phase, d.issue_metric))
                =>
                /\ Cardinality({j \in 1..Len(run.outcomes) :
                        /\ run.outcomes[j].drill_name = d.drill_name
                        /\ run.outcomes[j].metric_name = d.issue_metric
                        /\ run.outcomes[j].phase = d.issue_phase}) = 1
                /\ run.saved = Some(TRUE) =>
                      \E k \in 1..Len(outcome_file.records) :
                          /\ outcome_file.records[k].drill_name = d.drill_name
                          /\ outcome_file.records[k].current_session_id
                                = run.session_id[1]

(***************************************************************************)
(* Claims about the outcome tracker and its store (SpecOutcome)            *)
(***************************************************************************)
\* whether a drill is one the tracker must record
Tracked(d) ==
    /\ d.issue_metric # str_general
    /\ d.issue_phase # str_all
    /\ HasValue(run.previous_session_metrics, d.issue_phase, d.issue_metric)
    /\ HasValue(run.current_session_metrics, d.issue_phase, d.issue_metric)

\* the drills of the critical, priority and maintenance lists, in this order
PrescribedDrills ==
    (IF "critical_drills" \in DOMAIN run.drill_recommendations
       THEN run.drill_recommendations["critical_drills"] ELSE <<>>)
    \o (IF "priority_drills" \in DOMAIN run.drill_recommendations
          THEN run.drill_recommendations["priority_drills"] ELSE <<>>)
    \o (IF "maintenance_drills" \in DOMAIN run.drill_recommendations
          THEN run.drill_recommendations["maintenance_drills"] ELSE <<>>)

\* C9: track_drill_outcomes emits exactly one record, with delta = current -
\* previous, for each prescribed drill that targets a specific metric and
\* phase and has a value in both tables, in order; it emits no other record,
\* and none without prescriptions.
C9_OneRecordPerTrackedDrill ==
    pc \in {"tracked", "saved"} =>
        LET tracked == SelectSeq(PrescribedDrills, Tracked)
        IN  /\ Len(run.outcomes) = Len(tracked)
            /\ \A i \in 1..Len(tracked) :
                  LET d == tracked[i]
                      o == run.outcomes[i]
                  IN  /\ o.drill_name = d.drill_name
                      /\ o.metric_name = d.issue_metric
                      /\ o.phase = d.issue_phase
                      /\ o.pre_value =
                            run.previous_session_metrics[d.issue_phase][d.issue_metric]
                      /\ o.post_value =
                            run.current_session_metrics[d.issue_phase][d.issue_metric]
                      /\ o.delta = o.post_value - o.pre_value
            /\ ~Truthy(run.drill_recommendations) => run.outcomes = <<>>

\* prescriptions of which one drill is recorded and three are not: the
\* general drill, a drill whose metric the previous table lacks and a drill
\* whose phase the current table lacks
C9_Witness ==
    /\ pc = "tracked"
    /\ Len(PrescribedDrills) = 4
    /\ Len(run.outcomes) = 1
    /\ run.outcomes[1].metric_name = spine_lean
    /\ run.outcomes[1].delta # 0
    /\ \E i \in 1..4 : PrescribedDrills[i].issue_metric = str_general

\* seq repeated n times
RECURSIVE Repeated(_, _)
Repeated(seq, n) == IF n = 0 THEN <<>> ELSE Repeated(seq, n - 1) \o seq

\* C10: k saves of the same n records that all return True leave the
\* store's earlier records followed by the n records k times over, so a
\* fresh store holds exactly k*n records (2n after two saves); without a
\* save, or saving an empty list, the store is as it was.
C10_SavesAppend ==
    (pc \in {"tracked", "saved"} /\ \A i \in 1..Len(run.saves) : run.saves[i]) =>
        IF Len(run.outcomes) = 0 \/ Len(run.saves) = 0
        THEN outcome_file = run.store
        ELSE /\ outcome_file =
                   JsonFile(LoadExisting(run.store)
                            \o Repeated(run.outcomes, Len(run.saves)))
             /\ run.store = NoFile =>
                   Len(outcome_file.records) = Len(run.saves) * Len(run.outcomes)

\* two successful saves of two records on a fresh store
C10_Witness ==
    /\ pc = "saved"
    /\ run.store = NoFile
    /\ run.saves = <<TRUE, TRUE>>
    /\ Len(run.outcomes) = 2
    /\ Len(outcome_file.records) = 4

\* whether seq is an initial part of longer
IsPrefix(seq, longer) ==
    /\ Len(seq) <= Len(longer)
    /\ \A i \in 1..Len(seq) : seq[i] = longer[i]

\* C11: whatever way a save ends (written, failed, or interrupted between
\* truncating the file and writing it), the records the store held before
\* the save are an initial part of the records it holds after it.
C11_HistoryOnlyGrows ==
    [][IsPrefix(outcome_file.records, outcome_file'.records)]_vars

(***************************************************************************)
(* Claims about concurrent saves (SpecConcurrent)                          *)
(***************************************************************************)
\* whether the store holds every record that call s saved
HoldsRecordsOf(s) ==
    \A k \in 1..Len(run.outcomes[s]) :
        \E i \in 1..Len(outcome_file.records) :
            outcome_file.records[i] = run.outcomes[s][k]

\* C12: when both saves have returned, the store holds the records of both
\* exactly if the saves ran one after the other; if one call ran while the
\* other was between its load and its write-back, the records of one of
\* them are missing.
C12_OnlySerializedSavesKeepBoth ==
    (\A s \in Savers : pc[s] = "done") =>
        /\ ~run.overlapped =>
              /\ \A s \in Savers : HoldsRecordsOf(s)
              /\ IsPrefix(LoadExisting(run.store), outcome_file.records)
              /\ Len(outcome_file.records) =
                    Len(LoadExisting(run.store))
                    + Len(run.outcomes[1]) + Len(run.outcomes[2])
        /\ run.overlapped => \E s \in Savers : ~HoldsRecordsOf(s)

\* a lost update: both saves returned, and the store lacks the records of
\* the first call
C12_Witness ==
    /\ \A s \in Savers : pc[s] = "done"
    /\ run.overlapped
    /\ ~HoldsRecordsOf(1)
    /\ HoldsRecordsOf(2)

(***************************************************************************)
(* Claims about reading persisted data (SpecRecover)                       *)
(***************************************************************************)
\* whether the store can be parsed
Parses(file) == file.exists /\ file.parses

\* whether the previous session's report exists and yields no metrics
ReportUnparsable ==
    outputs[0].report \in {Some(UnreadableReport), Some(BlankReport)}

\* C13: none of the three reading operations raises; on a store that cannot
\* be parsed a save starts from an empty history and
\* compute_drill_confidence_scores returns an empty result; on a report
\* that cannot be parsed load_previous_metrics returns no metrics.
C13_ParseFailureRecovers ==
    /\ "save" \in pc =>
          /\ ~run.save.raised
          /\ (/\ run.save.store.exists /\ ~run.save.store.parses
              /\ run.save.write_end = "ok" /\ Len(run.outcomes) > 0)
             => (run.save.returns = TRUE /\ outcome_file = JsonFile(run.outcomes))
    /\ "scores" \in pc =>
          /\ ~run.scores.call.raised
          /\ ~Parses(run.scores.store) => run.scores.call.value = EmptyDict
    /\ "metrics" \in pc =>
          /\ ~run.metrics.call.raised
          /\ ReportUnparsable => run.metrics.call.value = EmptyDict

\* all three operations have returned; the store was unparsable when it
\* was scored and when it was saved to, and the report is not UTF-8
C13_Witness ==
    /\ pc = {"save", "scores", "metrics"}
    /\ outputs[0].report = Some(UnreadableReport)
    /\ run.scores.store = CorruptFile
    /\ run.save.store = CorruptFile
    /\ run.save.write_end = "ok"
    /\ Len(outcome_file.records) = 2

(***************************************************************************)
(* Claims about failures of outcome tracking (SpecRun)                     *)
(***************************************************************************)
\* whether the current session's report has been written
ReportWritten ==
    /\ ~IsNone(run.session_id)
    /\ run.session_id[1] \in DOMAIN outputs
    /\ ~IsNone(outputs[run.session_id[1]].report)

\* C14: a save whose write fails returns False and does not raise, whatever
\* the store held; no run is aborted by outcome tracking; and outcome
\* tracking is attempted only once the run's report is written, so a run
\* whose tracking failed ends with its report.
C14_TrackingFailureIsSwallowed ==
    /\ \A file \in StoreInputs, outcomes \in SaverOutcomeLists(1),
          write_end \in WriteEnds \ {"ok"} :
          LET saving == save_drill_outcomes(file, outcomes, write_end)
          IN  saving.returns = FALSE /\ ~saving.raised
    /\ pc # "aborted"
    /\ pc \in {"reported", "done"} => ReportWritten
    /\ run.tracking_end # "ok" => (pc = "done" /\ ReportWritten)

\* a second run whose probe for the previous prescriptions failed, and
\* which completed with its report written
C14_Witness ==
    /\ pc = "done"
    /\ run.number = 2
    /\ run.tracking_end = "probe_fails"
    /\ ReportWritten
    /\ Len(RunCues) > 0

C29_SevereIssuesScoreSeverityThirty ==
    pc = "classified" =>
        /\ classification_data.is_severe => priority_data.severity >= Pts(30)
        /\ classification_data.classification = "CRITICAL"
              => priority_data.severity >= Pts(30)

(***************************************************************************)
(* Claims about the drill recommender (SpecDrills)                         *)
(***************************************************************************)
\* the drill list of the issue's category in the knowledge base
CategoryDrills(focus_issue) == DrillKB[map_metric_to_drill_category(focus_issue.metric)]

\* whether the drill is the one prescribed for the issue
DrillIsFor(drill, focus_issue, drill_name, intensity_level) ==
    /\ drill.issue_metric = focus_issue.metric
    /\ drill.issue_phase = focus_issue.phase
    /\ drill.drill_name = drill_name
    /\ drill.intensity_level = intensity_level
    /\ drill.priority_score = focus_issue.priority_score

\* whether the issues are in priority-score-descending order
Descending(issues) ==
    \A i \in 1..Len(issues), j \in 1..Len(issues) :
        i < j => issues[i].priority_score >= issues[j].priority_score

\* C16: the critical drills are, one for one and in the order of the
\* critical issues (priority score descending, however many there are), the
\* first drill of each issue's category at intensive intensity.
C16_OneIntensiveDrillPerCritical ==
    pc = "recommended" =>
        LET critical == run.adaptive_focus.critical
            drills == run.drill_recommendations.critical_drills
        IN  /\ Descending(critical)
            /\ Len(drills) = Len(critical)
            /\ \A i \in 1..Len(critical) :
                  DrillIsFor(drills[i], critical[i],
                             CategoryDrills(critical[i])[1], "intensive")

\* four critical issues, each with its drill
C16_Witness ==
    /\ pc = "recommended"
    /\ Len(run.adaptive_focus.critical) = 4
    /\ Len(run.drill_recommendations.critical_drills) = 4
    /\ run.drill_recommendations.critical_drills[4].priority_score
          < run.drill_recommendations.critical_drills[1].priority_score

\* the drills for priority issues: the whole list unless it is the fallback
IssuePriorityDrills ==
    IF Len(run.adaptive_focus.priority) = 0 THEN <<>>
    ELSE run.drill_recommendations.priority_drills

\* C17: the drills for PRIORITY issues are, one for one, those of the three
\* PRIORITY issues with the highest priority scores (all of them if there
\* are fewer): the second drill of the category if it has one, else the
\* first, at moderate intensity; an issue ranked fourth or lower has none.
C17_TopThreePriorityGetSecondDrill ==
    pc = "recommended" =>
        LET priority == run.adaptive_focus.priority
            drills == IssuePriorityDrills
        IN  /\ Descending(priority)
            /\ Len(drills) = Min(3, Len(priority))
            /\ \A i \in 1..Len(drills) :
                  DrillIsFor(drills[i], priority[i],
                             IF Len(CategoryDrills(priority[i])) >= 2
                             THEN CategoryDrills(priority[i])[2]
                             ELSE CategoryDrills(priority[i])[1],
                             "moderate")
            /\ \A j \in 4..Len(priority) :
                  \A i \in 1..Len(drills) :
                      ~(/\ drills[i].issue_metric = priority[j].metric
                        /\ drills[i].issue_phase = priority[j].phase)

\* five priority issues; among the three that get a drill, one of a
\* category with two drills and one of a category with a single drill
C17_Witness ==
    /\ pc = "recommended"
    /\ Len(run.adaptive_focus.priority) = 5
    /\ Len(IssuePriorityDrills) = 3
    /\ \E i \in 1..3 : IssuePriorityDrills[i].drill_name = "Hip Rotation Shadow Swings"
    /\ \E i \in 1..3 : IssuePriorityDrills[i].drill_name = "Split-Step to Stance Drill"

\* C18: the maintenance drills are, in order, those of the issues among the
\* two highest-scored MONITOR issues whose progress_delta is below -5: the
\* first drill of the category at light intensity; there are never more
\* than two.
C18_TopTwoImprovingMonitorsGetLightDrill ==
    pc = "recommended" =>
        LET monitor == run.adaptive_focus.monitor
            considered == SubSeq(monitor, 1, Min(2, Len(monitor)))
            improving == SelectSeq(considered,
                             LAMBDA c : c.progress_delta < -Deci(5, 0))
            drills == run.drill_recommendations.maintenance_drills
        IN  /\ Descending(monitor)
            /\ Len(drills) = Len(improving)
            /\ Len(drills) <= 2
            /\ \A i \in 1..Len(improving) :
                  DrillIsFor(drills[i], improving[i],
                             CategoryDrills(improving[i])[1], "light")

\* three monitored issues, the third improving and so left without a drill
\* by the cap, and only one of the two considered improving
C18_Witness ==
    /\ pc = "recommended"
    /\ Len(run.adaptive_focus.monitor) >= 3
    /\ run.adaptive_focus.monitor[3].progress_delta < -Deci(5, 0)
    /\ \E i \in 1..2 : run.adaptive_focus.monitor[i].progress_delta < -Deci(5, 0)
    /\ \E i \in 1..2 : ~(run.adaptive_focus.monitor[i].progress_delta < -Deci(5, 0))
    /\ Len(run.drill_recommendations.maintenance_drills) = 1

\* every drill of the recommendation, whatever its list
RecommendedDrills(recommendations) ==
    recommendations.critical_drills \o recommendations.priority_drills
    \o recommendations.maintenance_drills

\* C19: no drill targets a suppressed issue, the drills are the ones the
\* same focus gets with its suppressed list emptied, and suppressed_count
\* is the number of suppressed issues.
C19_SuppressedGetNoDrill ==
    pc = "recommended" =>
        LET suppressed == run.adaptive_focus.suppressed
            drills == RecommendedDrills(run.drill_recommendations)
            without == generate_adaptive_drill_recommendations(
                           [run.adaptive_focus EXCEPT !.suppressed = <<>>])
        IN  /\ \A i \in 1..Len(suppressed), k \in 1..Len(drills) :
                  ~(/\ drills[k].issue_metric = suppressed[i].metric
                    /\ drills[k].issue_phase = suppressed[i].phase)
            /\ drills = RecommendedDrills(without)
            /\ run.drill_recommendations.suppressed_count = Len(suppressed)

\* two suppressed issues next to issues that did get drills
C19_Witness ==
    /\ pc = "recommended"
    /\ Len(run.adaptive_focus.suppressed) = 2
    /\ run.drill_recommendations.suppressed_count = 2
    /\ Len(run.drill_recommendations.critical_drills) >= 1
    /\ Len(run.drill_recommendations.maintenance_drills) >= 1

\* whether the drill is the general technique fallback
IsFallback(drill) ==
    /\ drill.issue_metric = str_general
    /\ drill.issue_phase = str_all
    /\ drill.drill_name = "Slow-Motion Shadow Strokes"
    /\ drill.intensity_level = "moderate"

\* C20: the recommendation always holds a drill; when there is neither a
\* critical drill nor a drill for a priority issue, the priority drills are
\* exactly one general technique drill at moderate intensity, and otherwise
\* no drill of the recommendation is the general one.
C20_FallbackKeepsRecommendationNonEmpty ==
    pc = "recommended" =>
        LET recommendations == run.drill_recommendations
            drills == RecommendedDrills(recommendations)
        IN  /\ Len(drills) >= 1
            /\ IF /\ Len(run.adaptive_focus.critical) = 0
                  /\ Len(run.adaptive_focus.priority) = 0
               THEN /\ Len(recommendations.priority_drills) = 1
                    /\ IsFallback(recommendations.priority_drills[1])
                    /\ Cardinality({k \in 1..Len(drills) :
                           drills[k].issue_metric = str_general}) = 1
               ELSE \A k \in 1..Len(drills) :
                       /\ drills[k].issue_metric # str_general
                       /\ drills[k].issue_phase # str_all

\* the fallback with no cue at all
C20_Witness ==
    /\ pc = "recommended"
    /\ Len(run.ranked_cues) = 0
    /\ Len(run.drill_recommendations.priority_drills) = 1
    /\ IsFallback(run.drill_recommendations.priority_drills[1])
    /\ Len(run.drill_recommendations.maintenance_drills) = 0

\* the issues of the focus that the drill targets
TargetsOf(drill) ==
    LET issues == run.adaptive_focus.all_adaptive_cues
    IN  {i \in 1..Len(issues) :
            /\ issues[i].metric = drill.issue_metric
            /\ issues[i].phase = drill.issue_phase}

\* C28: every maintenance drill targets an improving issue (progress_delta
\* below -5), and none targets an issue whose reliability level is Low.
C28_NoMaintenanceDrillForLowReliability ==
    pc = "recommended" =>
        LET drills == run.drill_recommendations.maintenance_drills
            issues == run.adaptive_focus.all_adaptive_cues
        IN  \A k \in 1..Len(drills) :
                /\ TargetsOf(drills[k]) # {}
                /\ \A i \in TargetsOf(drills[k]) :
                      /\ issues[i].progress_delta < -Deci(5, 0)
                      /\ issues[i].reliability # "Low"

\* the entries of the list that were built from the cue; a text and a
\* number are compared by what they print as
EntriesOf(cue_data, entries) ==
    {i \in 1..Len(entries) :
        /\ entries[i].metric = cue_data[3]
        /\ entries[i].phase = cue_data[5]}

\* C30: every ranked cue (priority_score, cue_text, metric_name, deviation,
\* phase) has exactly one entry in the focus, in exactly one of the
\* critical, priority, monitor and suppressed lists, and the entry carries
\* the cue's own text, metric name, deviation and phase.
C30_EntriesCarryTheirCueFields ==
    pc \in {"focused", "recommended"} =>
        LET focus == run.adaptive_focus
            lists == focus.critical \o focus.priority \o focus.monitor
                     \o focus.suppressed
        IN  /\ Len(focus.all_adaptive_cues) = Len(run.ranked_cues)
            /\ \A k \in 1..Len(run.ranked_cues) :
                  LET cue_data == run.ranked_cues[k] IN
                  /\ Cardinality(EntriesOf(cue_data, lists)) = 1
                  /\ Cardinality(EntriesOf(cue_data, focus.all_adaptive_cues)) = 1
                  /\ \A i \in EntriesOf(cue_data, focus.all_adaptive_cues) :
                        /\ ToString(focus.all_adaptive_cues[i].cue_text)
                              = ToString(cue_data[2])
                        /\ focus.all_adaptive_cues[i].deviation = cue_data[4]

(***************************************************************************)
(* Claims about the drill category of a metric (SpecCategory)              *)
(***************************************************************************)
\* the tests in the order stated: a test passes when, for one of its
\* alternatives, every substring of the alternative occurs in the name
CategoryTests ==
    << [category |-> "hip_rotation", alternatives |-> {{str_hip, str_rotation}}],
       [category |-> "elbow_angles", alternatives |-> {{str_elbow}}],
       [category |-> "knee_stability", alternatives |-> {{str_knee}}],
       [category |-> "stance_width", alternatives |-> {{str_stance}, {str_width}}],
       [category |-> "spine_lean", alternatives |-> {{str_spine}, {str_lean}}],
       [category |-> "shoulder_stability", alternatives |-> {{str_shoulder}}] >>

TestPasses(test, metric_lower) ==
    \E alternative \in test.alternatives :
        \A sub \in alternative : Contains(metric_lower, sub)

PassingTests(metric_name) ==
    {k \in 1..Len(CategoryTests) : TestPasses(CategoryTests[k], Lower(metric_name))}

\* C21: the category of a metric name is the category of the first test,
\* in the stated order, that passes on the lower-cased name, and
\* general_technique when none passes.
C21_FirstMatchingTestGivesCategory ==
    pc = "mapped" =>
        LET passing == PassingTests(run.metric_name) IN
        run.category =
            Some(IF passing = {} THEN "general_technique"
                 ELSE CategoryTests[MinOf(passing)].category)

\* a name on which three tests pass, written in another order than the
\* tests are made, with a capital
C21_Witness ==
    /\ pc = "mapped"
    /\ run.metric_name = JoinWords(<<str_lean, str_stance, str_Elbow>>)
    /\ PassingTests(run.metric_name) = {2, 4, 5}
    /\ run.category = Some("elbow_angles")

(***************************************************************************)
(* Claims about session identifiers (SpecSessions)                         *)
(***************************************************************************)
\* C22: the previous session an invocation finds is the largest session
\* identifier strictly less than its own: never its own, never one that
\* sorts after it, and none when no identifier is less than its own.
C22_PreviousSessionIsLargestEarlier ==
    [][\A r \in Runners :
          (pc[r] = "started" /\ pc'[r] = "tracked") =>
              LET current == run[r].session_id[1]
                  earlier == {d \in DOMAIN outputs : d < current}
              IN  run'[r].previous_session_id =
                      IF earlier = {} THEN None ELSE Some(MaxOf(earlier))]_vars

\* C27: no two invocations obtain the same session identifier, and the
\* report a finished invocation wrote is still the one in its directory.
C27_SessionIdsAreUnique ==
    /\ \A r1 \in Runners, r2 \in Runners :
          (r1 # r2 /\ pc[r1] # "idle" /\ pc[r2] # "idle")
              => run[r1].session_id # run[r2].session_id
    /\ \A r \in Runners :
          pc[r] = "done" =>
              outputs[run[r].session_id[1]].report = Some(RunnerReport(r))

(***************************************************************************)
(* Claims about the drill confidence scores (SpecConfidence)               *)
(***************************************************************************)
\* the drill names with at least one record in the store
RecordedDrills ==
    IF outcome_file.exists /\ outcome_file.parses
    THEN {outcome_file.records[i].drill_name : i \in 1..Len(outcome_file.records)}
    ELSE {}

\* C23: every drill with at least one outcome record has a confidence
\* score between 0 and 1, and its level is High exactly when the score is
\* at least 0.75, Medium exactly when it is at least 0.50 and below 0.75,
\* and Low otherwise.
C23_ConfidenceScoreBoundsAndLevels ==
    pc \in {"scored", "ranked"} =>
        LET confidence_scores == run.confidence_scores[1] IN
        /\ DOMAIN confidence_scores = RecordedDrills
        /\ \A drill_name \in RecordedDrills :
              LET data == confidence_scores[drill_name] IN
              /\ 0 <= data.confidence_score
              /\ data.confidence_score <= 1000000
              /\ data.confidence_level = "High" <=> data.confidence_score >= 750000
              /\ data.confidence_level = "Medium" <=>
                    (data.confidence_score >= 500000 /\ data.confidence_score < 750000)
              /\ data.confidence_level = "Low" <=> data.confidence_score < 500000

\* one drill exactly at 0.75 and High, the other exactly at 0.50 and Medium
C23_Witness ==
    /\ pc = "scored"
    /\ Cardinality(RecordedDrills) = 2
    /\ \E d1 \in RecordedDrills, d2 \in RecordedDrills :
          /\ run.confidence_scores[1][d1].confidence_score = 750000
          /\ run.confidence_scores[1][d1].confidence_level = "High"
          /\ run.confidence_scores[1][d2].confidence_score = 500000
          /\ run.confidence_scores[1][d2].confidence_level = "Medium"

\* the position of the first record of the drill in the history
FirstRecordOf(drill_name) ==
    MinOf({i \in 1..Len(outcome_file.records) :
              outcome_file.records[i].drill_name = drill_name})

\* C24: get_top_effective_drills(n) returns at most n drills, the best
\* scored ones, in confidence-score-descending order, drills with equal
\* scores in the order in which their names first appeared in the history.
C24_TopDrillsRankedStably ==
    pc = "ranked" =>
        LET top_drills == run.top_drills[1]
            confidence_scores == run.confidence_scores[1]
            names == {top_drills[i][1] : i \in 1..Len(top_drills)}
        IN  /\ Len(top_drills) = Min(run.n, Cardinality(RecordedDrills))
            /\ names \subseteq RecordedDrills
            /\ Cardinality(names) = Len(top_drills)
            /\ \A i \in 1..Len(top_drills) :
                  top_drills[i][2] = confidence_scores[top_drills[i][1]]
            /\ \A i \in 1..Len(top_drills), j \in 1..Len(top_drills) :
                  i < j =>
                    \/ top_drills[i][2].confidence_score > top_drills[j][2].confidence_score
                    \/ /\ top_drills[i][2].confidence_score = top_drills[j][2].confidence_score
                       /\ FirstRecordOf(top_drills[i][1]) < FirstRecordOf(top_drills[j][1])
            /\ \A left_out \in RecordedDrills \ names, i \in 1..Len(top_drills) :
                  \/ top_drills[i][2].confidence_score > confidence_scores[left_out].confidence_score
                  \/ /\ top_drills[i][2].confidence_score = confidence_scores[left_out].confidence_score
                     /\ FirstRecordOf(top_drills[i][1]) < FirstRecordOf(left_out)

\* two drills with equal scores, of which only the first recorded is kept
C24_Witness ==
    /\ pc = "ranked"
    /\ run.n = 1
    /\ Cardinality(RecordedDrills) = 2
    /\ \A d1 \in RecordedDrills, d2 \in RecordedDrills :
          run.confidence_scores[1][d1].confidence_score
              = run.confidence_scores[1][d2].confidence_score
    /\ Len(run.top_drills[1]) = 1
    /\ run.top_drills[1][1][1] = outcome_file.records[1].drill_name
    /\ outcome_file.records[1].drill_name = "Mirror Posture Check"

(***************************************************************************)
(* Claims about the reliability assessor (SpecReliability)                 *)
(***************************************************************************)
\* the level of a standard deviation, in hundredths of a degree
LevelOfStd(std) ==
    IF std < 1000 THEN "High" ELSE IF std < 2000 THEN "Medium" ELSE "Low"

\* the level of a coefficient of variation, in hundredths
LevelOfCV(cv) ==
    IF cv < 15 THEN "High" ELSE IF cv < 30 THEN "Medium" ELSE "Low"

\* the metrics with at least one non-missing sample
SampledMetrics ==
    {metric \in DOMAIN run.features_df :
        \E i \in 1..Len(run.features_df[metric]) : ~IsNone(run.features_df[metric][i])}

\* C25 as stated: every angle or rotation metric, hip_rotation included, is
\* classified by its standard deviation and every other metric by its
\* coefficient of variation; a metric with no non-missing sample gets no
\* assessment.
C25_AnglesAndRotationsByStd ==
    pc = "assessed" =>
        /\ DOMAIN run.user_reliability = SampledMetrics
        /\ \A metric \in SampledMetrics :
              run.user_reliability[metric].level =
                  IF Contains(metric, str_angle) \/ Contains(metric, str_rotation)
                  THEN LevelOfStd(run.confidence_stats[metric].std)
                  ELSE LevelOfCV(run.confidence_stats[metric].cv)

\* C25 amended: only the metrics whose name contains 'angle' are
\* classified by their standard deviation; every other metric,
\* hip_rotation included, by its coefficient of variation; a metric with no
\* non-missing sample gets no assessment.
C25_OnlyAnglesByStd ==
    pc = "assessed" =>
        /\ DOMAIN run.user_reliability = SampledMetrics
        /\ \A metric \in SampledMetrics :
              run.user_reliability[metric].level =
                  IF Contains(metric, str_angle)
                  THEN LevelOfStd(run.confidence_stats[metric].std)
                  ELSE LevelOfCV(run.confidence_stats[metric].cv)

\* a hip rotation with std 3 and cv 0.30 assessed Low, an elbow angle with
\* std exactly 10 assessed Medium, and a stance column without samples
C25_Witness ==
    /\ pc = "assessed"
    /\ SampledMetrics = {left_elbow_angle, hip_rotation}
    /\ run.confidence_stats[hip_rotation].std = 300
    /\ run.confidence_stats[hip_rotation].cv = 30
    /\ run.user_reliability[hip_rotation].level = "Low"
    /\ run.confidence_stats[left_elbow_angle].std = 1000
    /\ run.user_reliability[left_elbow_angle].level = "Medium"

(***************************************************************************)
(* Claims about the stroke phases (SpecPhases)                             *)
(***************************************************************************)
\* C26: the four frame ranges each have start <= end, the preparation
\* starts at frame 0, every later phase starts at the frame after the end
\* of the phase before it, and the follow-through ends at the last frame.
C26_PhasesContiguousAndCovering ==
    pc = "segmented" =>
        LET phases == run.phases[1] IN
        /\ \A p \in DOMAIN phases : phases[p][1] <= phases[p][2]
        /\ phases.preparation[1] = 0
        /\ phases.load[1] = phases.preparation[2] + 1
        /\ phases.contact[1] = phases.load[2] + 1
        /\ phases.follow_through[1] = phases.contact[2] + 1
        /\ phases.follow_through[2] = run.total_frames - 1

====
